---------------------------- MODULE Spec2Model ----------------------------
(***************************************************************************)
(* Model of the cast-to-markdown route of the log converter:               *)
(* POST handler, convertCastToMarkdown, stripAnsiCodes, isCommandLine,     *)
(* extractCommand and parseTerminalOutput (src/deploy.sh, lines 506-948).  *)
(*                                                                         *)
(* Text is a sequence of characters.  A character is a one-character       *)
(* string; characters that cannot be written in an ASCII module are the    *)
(* strings "U+XXXX" of their code points (ESC is "U+001B").                *)
(***************************************************************************)
EXTENDS Integers, Sequences, FiniteSets

VARIABLES
    pc,              \* "call": arguments given, "return": the operation has returned
    castContent,     \* convertCastToMarkdown: the castContent argument
    fileName,        \* convertCastToMarkdown: the fileName argument
    header,          \* convertCastToMarkdown: the parsed header
    events,          \* convertCastToMarkdown: the parsed events
    terminalOutput,  \* convertCastToMarkdown: the aggregated output text
    cleanOutput,     \* convertCastToMarkdown: the stripped text
    blocks,          \* convertCastToMarkdown: the command and output blocks
    timeSlots,       \* convertCastToMarkdown: the timeline rows
    markdown,        \* convertCastToMarkdown: the returned string
    output,          \* parseTerminalOutput: the output argument
    parsed,          \* parseTerminalOutput: the returned blocks
    rawText,         \* stripAnsiCodes: the text argument
    strippedText,    \* stripAnsiCodes: the returned string
    candidateLine,   \* isCommandLine: the line argument
    isCommand,       \* isCommandLine: the returned boolean
    extracted,       \* extractCommand: the returned string
    loggingDir,      \* POST: whether the logging directory exists
    logging,         \* POST: the entries of the logging directory, by name
    files,           \* POST: the files field of the request body
    response         \* POST: the JSON response

convertVars == <<castContent, fileName, header, events, terminalOutput, cleanOutput,
                 blocks, timeSlots, markdown>>
parseVars == <<output, parsed>>
stripVars == <<rawText, strippedText>>
classifyVars == <<candidateLine, isCommand, extracted>>
postVars == <<loggingDir, logging, files, response>>
vars == <<pc, convertVars, parseVars, stripVars, classifyVars, postVars>>

-----------------------------------------------------------------------------
(* Characters and strings *)

\* The characters of a string literal, as a sequence of one-character strings.
Chars(str) == [i \in 1..Len(str) |-> SubSeq(str, i, i)]

ESC == "U+001B"
BEL == "U+0007"
ARROW == "U+279C"      \* the oh-my-zsh prompt arrow
RARROW == "U+2192"
BALLOTX == "U+2717"
CHECK == "U+2713"
BRAILLE == "U+280B"    \* one spinner glyph of the Braille block

Digits == {"0", "1", "2", "3", "4", "5", "6", "7", "8", "9"}
LowerCase == {"a", "b", "c", "d", "e", "f", "g", "h", "i", "j", "k", "l", "m",
              "n", "o", "p", "q", "r", "s", "t", "u", "v", "w", "x", "y", "z"}
UpperCase == {"A", "B", "C", "D", "E", "F", "G", "H", "I", "J", "K", "L", "M",
              "N", "O", "P", "Q", "R", "S", "T", "U", "V", "W", "X", "Y", "Z"}

\* JavaScript white space (String.prototype.trim and the regex class \s),
\* over the characters of the model.
WhiteSpace == {" ", "\t", "\n", "\r", "\f", "U+000B", "U+00A0", "U+FEFF"}

IsSpace(c) == c \in WhiteSpace

DigitVal(c) == CHOOSE n \in 0..9 : SubSeq("0123456789", n + 1, n + 1) = c

\* The position after the longest run of characters of set S from i.
RunEnd(s, i, S) ==
    IF i > Len(s) THEN i ELSE
    CHOOSE k \in i..(Len(s) + 1) :
        /\ k = Len(s) + 1 \/ s[k] \notin S
        /\ \A m \in i..(k - 1) : s[m] \in S

\* The position after the longest run of characters outside set X from i.
RunEndNot(s, i, X) ==
    IF i > Len(s) THEN i ELSE
    CHOOSE k \in i..(Len(s) + 1) :
        /\ k = Len(s) + 1 \/ s[k] \in X
        /\ \A m \in i..(k - 1) : s[m] \notin X

\* The position before the longest run of characters of set S that ends s.
RunStart(s, S) ==
    CHOOSE k \in 0..Len(s) :
        /\ k = 0 \/ s[k] \notin S
        /\ \A m \in (k + 1)..Len(s) : s[m] \in S

\* String.prototype.trimStart / trimEnd / trim
TrimStart(s) == SubSeq(s, RunEnd(s, 1, WhiteSpace), Len(s))

TrimEnd(s) == SubSeq(s, 1, RunStart(s, WhiteSpace))

Trim(s) == TrimEnd(TrimStart(s))

\* Whether p occurs in s at position i.
MatchAt(s, i, p) == i >= 1 /\ i + Len(p) - 1 <= Len(s) /\ SubSeq(s, i, i + Len(p) - 1) = p

\* s.startsWith(p)
StartsWith(s, p) == MatchAt(s, 1, p)

\* s.endsWith(p)
EndsWith(s, p) == MatchAt(s, Len(s) - Len(p) + 1, p)

\* s.includes(p)
Includes(s, p) == \E i \in 1..(Len(s) - Len(p) + 1) : MatchAt(s, i, p)

\* s.split(c) for a one-character separator c: never empty, '' gives [''].
RECURSIVE SplitFrom(_, _, _)
SplitFrom(s, c, i) ==
    LET j == RunEndNot(s, i, {c})
    IN  IF j > Len(s) THEN <<SubSeq(s, i, Len(s))>>
        ELSE <<SubSeq(s, i, j - 1)>> \o SplitFrom(s, c, j + 1)

Split(s, c) == SplitFrom(s, c, 1)

\* parts.join(sep)
RECURSIVE Join(_, _)
Join(parts, sep) ==
    IF parts = <<>> THEN <<>>
    ELSE IF Len(parts) = 1 THEN parts[1]
    ELSE parts[1] \o sep \o Join(Tail(parts), sep)

-----------------------------------------------------------------------------
(* JavaScript values, as JSON.parse produces them *)

Undefined == [t |-> "undefined"]
Null == [t |-> "null"]
Bool(b) == [t |-> "bool", b |-> b]
\* A decimal number: sign, integer part, fraction digits without trailing zeros.
Num(neg, int, frac) == [t |-> "num", neg |-> neg, int |-> int, frac |-> frac]
NaN == [t |-> "nan"]
Str(s) == [t |-> "str", s |-> s]
Arr(items) == [t |-> "arr", items |-> items]
\* An object: its own keys in insertion order, and their values.
Obj(keys, vals) == [t |-> "obj", keys |-> keys, vals |-> vals]

IntNum(n) == IF n < 0 THEN Num(TRUE, -n, <<>>) ELSE Num(FALSE, n, <<>>)

\* What JSON.parse does on a line: a value, or a SyntaxError.
SyntaxError == [ok |-> FALSE]
Parsed(v, i) == [ok |-> TRUE, v |-> v, i |-> i]

JsonSpace == {" ", "\t", "\n", "\r"}

SkipWs(s, i) == RunEnd(s, i, JsonSpace)

HexDigits == "0123456789abcdef"
HexUpper == "0123456789ABCDEF"
IsHex(c) == \E n \in 1..16 : SubSeq(HexDigits, n, n) = c \/ SubSeq(HexUpper, n, n) = c
HexVal(c) == CHOOSE n \in 0..15 :
                SubSeq(HexDigits, n + 1, n + 1) = c \/ SubSeq(HexUpper, n + 1, n + 1) = c
HexChar(n) == SubSeq(HexUpper, n + 1, n + 1)

\* The printable ASCII characters, code points 32 to 126 in order (the grave
\* accent, code point 96, is written "U+0060": a blank holds its place here).
Printable == " !\"#$%&'()*+,-./0123456789:;<=>?@ABCDEFGHIJKLMNOPQRSTUVWXYZ[\\]^_ abcdefghijklmnopqrstuvwxyz{|}~"

\* The character of a \uXXXX escape with hex digits a b c d.
CodeUnit(a, b, c, d) ==
    LET code == ((HexVal(a) * 16 + HexVal(b)) * 16 + HexVal(c)) * 16 + HexVal(d)
    IN  IF code >= 32 /\ code <= 126 /\ code # 96
        THEN SubSeq(Printable, code - 31, code - 31)
        ELSE IF code = 9 THEN "\t"
        ELSE IF code = 10 THEN "\n"
        ELSE IF code = 12 THEN "\f"
        ELSE IF code = 13 THEN "\r"
        ELSE "U+" \o HexChar(HexVal(a)) \o HexChar(HexVal(b))
                  \o HexChar(HexVal(c)) \o HexChar(HexVal(d))

\* Characters that may not occur unescaped in a JSON string (code points < 32).
ControlChars ==
    {"\t", "\n", "\f", "\r"} \cup
    {"U+00" \o HexChar(h) \o HexChar(l) : h \in 0..1, l \in 0..15}

\* The character an escape \e stands for ("" when \e is no simple escape).
SimpleEscape(e) ==
    CASE e \in {"\"", "\\", "/"} -> e
      [] e = "n" -> "\n"
      [] e = "r" -> "\r"
      [] e = "t" -> "\t"
      [] e = "f" -> "\f"
      [] e = "b" -> "U+0008"
      [] OTHER -> ""

\* The body of a JSON string from position i (after the opening quote).
RECURSIVE ParseStringBody(_, _, _)
ParseStringBody(s, i, acc) ==
    LET j == RunEndNot(s, i, ControlChars \cup {"\"", "\\"})
        run == acc \o SubSeq(s, i, j - 1)
    IN  IF j > Len(s) \/ s[j] \in ControlChars THEN SyntaxError
        ELSE IF s[j] = "\"" THEN Parsed(Str(run), j + 1)
        ELSE IF j + 1 > Len(s) THEN SyntaxError
        ELSE IF SimpleEscape(s[j + 1]) # ""
        THEN ParseStringBody(s, j + 2, Append(run, SimpleEscape(s[j + 1])))
        ELSE IF s[j + 1] = "u" /\ j + 5 <= Len(s) /\ \A k \in 2..5 : IsHex(s[j + k])
        THEN ParseStringBody(s, j + 6,
                 Append(run, CodeUnit(s[j + 2], s[j + 3], s[j + 4], s[j + 5])))
        ELSE SyntaxError

\* A run of decimal digits from position i: [n, digits, i].
RECURSIVE ParseDigits(_, _, _, _)
ParseDigits(s, i, n, ds) ==
    IF i <= Len(s) /\ s[i] \in Digits
    THEN ParseDigits(s, i + 1, n * 10 + DigitVal(s[i]), Append(ds, s[i]))
    ELSE [n |-> n, digits |-> ds, i |-> i]

StripTrailingZeros(ds) == SubSeq(ds, 1, RunStart(ds, {"0"}))

Zeros(n) == [k \in 1..n |-> "0"]

RECURSIVE DigitsToNat(_, _)
DigitsToNat(ds, n) ==
    IF ds = <<>> THEN n ELSE DigitsToNat(Tail(ds), n * 10 + DigitVal(Head(ds)))

\* The number with integer digits id and fraction digits fd, times 10^e.
ShiftPoint(neg, id, fd, e) ==
    LET all == id \o fd
        p == Len(id) + e
    IN  IF p <= 0 THEN Num(neg, 0, StripTrailingZeros(Zeros(-p) \o all))
        ELSE IF p >= Len(all) THEN Num(neg, DigitsToNat(all \o Zeros(p - Len(all)), 0), <<>>)
        ELSE Num(neg, DigitsToNat(SubSeq(all, 1, p), 0),
                 StripTrailingZeros(SubSeq(all, p + 1, Len(all))))

\* The optional exponent part of a number whose mantissa ends before i.
ParseExponent(s, i, neg, id, fd) ==
    IF i <= Len(s) /\ s[i] \in {"e", "E"}
    THEN LET sgn == i + 1 <= Len(s) /\ s[i + 1] \in {"+", "-"}
             eneg == sgn /\ s[i + 1] = "-"
             ep == ParseDigits(s, IF sgn THEN i + 2 ELSE i + 1, 0, <<>>)
         IN  IF ep.digits = <<>> THEN SyntaxError
             ELSE Parsed(ShiftPoint(neg, id, fd, IF eneg THEN -ep.n ELSE ep.n), ep.i)
    ELSE Parsed(ShiftPoint(neg, id, fd, 0), i)

\* A JSON number from position i: -? int frac? exp?
ParseNumber(s, i) ==
    LET neg == i <= Len(s) /\ s[i] = "-"
        j == IF neg THEN i + 1 ELSE i
        ip == ParseDigits(s, j, 0, <<>>)
    IN  IF ip.digits = <<>> THEN SyntaxError
        ELSE IF Len(ip.digits) > 1 /\ ip.digits[1] = "0" THEN SyntaxError
        ELSE IF ip.i <= Len(s) /\ s[ip.i] = "."
        THEN LET fp == ParseDigits(s, ip.i + 1, 0, <<>>)
             IN  IF fp.digits = <<>> THEN SyntaxError
                 ELSE ParseExponent(s, fp.i, neg, ip.digits, fp.digits)
        ELSE ParseExponent(s, ip.i, neg, ip.digits, <<>>)

\* obj with key k set to v, as a JSON object literal builds it: a repeated
\* key keeps its first position and takes the last value.
SetKey(obj, k, v) ==
    IF \E n \in 1..Len(obj.keys) : obj.keys[n] = k
    THEN LET n == CHOOSE n \in 1..Len(obj.keys) : obj.keys[n] = k
         IN  Obj(obj.keys, [obj.vals EXCEPT ![n] = v])
    ELSE Obj(Append(obj.keys, k), Append(obj.vals, v))

RECURSIVE ParseValue(_, _)
RECURSIVE ParseElements(_, _, _)
RECURSIVE ParseMembers(_, _, _)

\* The elements of an array after "[" or ",", up to the closing "]".
ParseElements(s, i, acc) ==
    LET r == ParseValue(s, i)
    IN  IF ~r.ok THEN SyntaxError
        ELSE LET j == SkipWs(s, r.i)
             IN  IF j > Len(s) THEN SyntaxError
                 ELSE IF s[j] = "," THEN ParseElements(s, j + 1, Append(acc, r.v))
                 ELSE IF s[j] = "]" THEN Parsed(Arr(Append(acc, r.v)), j + 1)
                 ELSE SyntaxError

\* The members of an object after "{" or ",", up to the closing "}".
ParseMembers(s, i, acc) ==
    LET j == SkipWs(s, i)
    IN  IF j > Len(s) \/ s[j] # "\"" THEN SyntaxError
        ELSE LET k == ParseStringBody(s, j + 1, <<>>)
             IN  IF ~k.ok THEN SyntaxError
                 ELSE LET c == SkipWs(s, k.i)
                      IN  IF c > Len(s) \/ s[c] # ":" THEN SyntaxError
                          ELSE LET r == ParseValue(s, c + 1)
                               IN  IF ~r.ok THEN SyntaxError
                                   ELSE LET e == SkipWs(s, r.i)
                                            o == SetKey(acc, k.v.s, r.v)
                                        IN  IF e > Len(s) THEN SyntaxError
                                            ELSE IF s[e] = "," THEN ParseMembers(s, e + 1, o)
                                            ELSE IF s[e] = "}" THEN Parsed(o, e + 1)
                                            ELSE SyntaxError

\* One JSON value from position i, leading white space skipped.
ParseValue(s, i) ==
    LET j == SkipWs(s, i)
    IN  IF j > Len(s) THEN SyntaxError
        ELSE IF s[j] = "\"" THEN ParseStringBody(s, j + 1, <<>>)
        ELSE IF s[j] = "[" THEN
            LET k == SkipWs(s, j + 1)
            IN  IF k <= Len(s) /\ s[k] = "]" THEN Parsed(Arr(<<>>), k + 1)
                ELSE ParseElements(s, j + 1, <<>>)
        ELSE IF s[j] = "{" THEN
            LET k == SkipWs(s, j + 1)
            IN  IF k <= Len(s) /\ s[k] = "}" THEN Parsed(Obj(<<>>, <<>>), k + 1)
                ELSE ParseMembers(s, j + 1, Obj(<<>>, <<>>))
        ELSE IF MatchAt(s, j, Chars("null")) THEN Parsed(Null, j + 4)
        ELSE IF MatchAt(s, j, Chars("true")) THEN Parsed(Bool(TRUE), j + 4)
        ELSE IF MatchAt(s, j, Chars("false")) THEN Parsed(Bool(FALSE), j + 5)
        ELSE IF s[j] = "-" \/ s[j] \in Digits THEN ParseNumber(s, j)
        ELSE SyntaxError

\* JSON.parse(text): the value, or SyntaxError (the exception) when the text
\* is not exactly one JSON value with optional surrounding white space.
JSONParse(text) ==
    LET r == ParseValue(text, 1)
    IN  IF r.ok /\ SkipWs(text, r.i) > Len(text) THEN r ELSE SyntaxError

-----------------------------------------------------------------------------
(* JavaScript conversions and property access used by convertCastToMarkdown *)

RECURSIVE NatChars(_)
NatChars(n) ==
    IF n < 10 THEN <<SubSeq("0123456789", n + 1, n + 1)>>
    ELSE NatChars(n \div 10) \o <<SubSeq("0123456789", (n % 10) + 1, (n % 10) + 1)>>

IsZero(v) == v.t = "num" /\ v.int = 0 /\ v.frac = <<>>

\* Number.prototype.toString, for the decimals of the model.
NumberToString(v) ==
    IF v.t = "nan" THEN Chars("NaN")
    ELSE (IF v.neg /\ ~IsZero(v) THEN <<"-">> ELSE <<>>) \o NatChars(v.int)
         \o (IF v.frac = <<>> THEN <<>> ELSE <<".">> \o v.frac)

\* ToStr(v), as a template literal or += applies it.
RECURSIVE ToStr(_)
RECURSIVE JoinItems(_)
JoinItems(items) ==
    IF items = <<>> THEN <<>>
    ELSE (IF Head(items).t \in {"null", "undefined"} THEN <<>> ELSE ToStr(Head(items)))
         \o (IF Len(items) > 1 THEN <<",">> \o JoinItems(Tail(items)) ELSE <<>>)

ToStr(v) ==
    CASE v.t = "undefined" -> Chars("undefined")
      [] v.t = "null" -> Chars("null")
      [] v.t = "bool" -> IF v.b THEN Chars("true") ELSE Chars("false")
      [] v.t \in {"num", "nan"} -> NumberToString(v)
      [] v.t = "str" -> v.s
      [] v.t = "arr" -> JoinItems(v.items)
      [] v.t = "obj" -> Chars("[object Object]")

\* ToNumber of a string: white space trimmed, '' is 0, a decimal literal its
\* value, anything else NaN.
StringToNumber(s) ==
    LET t == Trim(s)
        signed == t # <<>> /\ t[1] \in {"+", "-"}
        neg == signed /\ t[1] = "-"
        j == IF signed THEN 2 ELSE 1
        ip == ParseDigits(t, j, 0, <<>>)
        dot == ip.i <= Len(t) /\ t[ip.i] = "."
        fp == IF dot THEN ParseDigits(t, ip.i + 1, 0, <<>>)
              ELSE [n |-> 0, digits |-> <<>>, i |-> ip.i]
        r == ParseExponent(t, fp.i, neg, ip.digits, fp.digits)
    IN  IF t = <<>> THEN IntNum(0)
        ELSE IF ip.digits = <<>> /\ fp.digits = <<>> THEN NaN
        ELSE IF r.ok /\ r.i > Len(t) THEN r.v
        ELSE NaN

\* ToNumber(v)
ToNumber(v) ==
    CASE v.t = "undefined" -> NaN
      [] v.t = "null" -> IntNum(0)
      [] v.t = "bool" -> IF v.b THEN IntNum(1) ELSE IntNum(0)
      [] v.t \in {"num", "nan"} -> v
      [] v.t = "str" -> StringToNumber(v.s)
      [] v.t = "arr" -> StringToNumber(ToStr(v))
      [] v.t = "obj" -> NaN

\* ToBoolean(v): what if (v) and v || w test.
Truthy(v) ==
    CASE v.t \in {"undefined", "null", "nan"} -> FALSE
      [] v.t = "bool" -> v.b
      [] v.t = "num" -> ~IsZero(v)
      [] v.t = "str" -> v.s # <<>>
      [] v.t \in {"arr", "obj"} -> TRUE

\* The largest integer not above the number n, or NaN.
Floor(n) ==
    IF n.t = "nan" THEN NaN
    ELSE IF n.neg /\ n.frac # <<>> THEN IntNum(-(n.int + 1))
    ELSE IF n.neg THEN IntNum(-n.int)
    ELSE IntNum(n.int)

\* Math.floor(v): an integer-valued number, or NaN.
MathFloor(v) == Floor(ToNumber(v))

\* The integer an integer-valued number stands for.
IntOf(v) == IF v.neg THEN -v.int ELSE v.int

\* Whether key is a canonical array index ("0", "1", ...).
IsIndexKey(key) ==
    /\ key # <<>>
    /\ \A i \in 1..Len(key) : key[i] \in Digits
    /\ (Len(key) = 1 \/ key[1] # "0")

\* v[key] for a value that is not null or undefined.
GetProp(v, key) ==
    CASE v.t = "obj" ->
            IF \E n \in 1..Len(v.keys) : v.keys[n] = key
            THEN v.vals[CHOOSE n \in 1..Len(v.keys) : v.keys[n] = key]
            ELSE Undefined
      [] v.t = "arr" ->
            IF key = Chars("length") THEN IntNum(Len(v.items))
            ELSE IF IsIndexKey(key) /\ DigitsToNat(key, 0) < Len(v.items)
            THEN v.items[DigitsToNat(key, 0) + 1]
            ELSE Undefined
      [] v.t = "str" ->
            IF key = Chars("length") THEN IntNum(Len(v.s))
            ELSE IF IsIndexKey(key) /\ DigitsToNat(key, 0) < Len(v.s)
            THEN Str(<<v.s[DigitsToNat(key, 0) + 1]>>)
            ELSE Undefined
      [] OTHER -> Undefined

\* Whether reading a property of v throws a TypeError.
ThrowsOnAccess(v) == v.t \in {"null", "undefined"}

-----------------------------------------------------------------------------
(* Regular-expression matching: a matcher M(s, i) gives the position after *)
(* the match of its pattern that starts at position i of s, or 0.          *)

At(s, i) == IF i >= 1 /\ i <= Len(s) THEN s[i] ELSE "U+FFFF"   \* no character

\* The first position from i where matcher M matches, or Len(s) + 1.
FirstMatch(M(_, _), s, i) ==
    IF i > Len(s) THEN i ELSE
    CHOOSE k \in i..(Len(s) + 1) :
        /\ k = Len(s) + 1 \/ M(s, k) > k
        /\ \A m \in i..(k - 1) : ~(M(s, m) > m)

\* text.replace(/pattern/g, r) from position i: every match of matcher M
\* replaced by r, left to right.
RECURSIVE ReplaceAll(_, _, _, _)
ReplaceAll(M(_, _), r, s, i) ==
    LET k == FirstMatch(M, s, i)
    IN  IF k > Len(s) THEN SubSeq(s, i, Len(s))
        ELSE SubSeq(s, i, k - 1) \o r \o ReplaceAll(M, r, s, M(s, k))

RemoveAll(M(_, _), s, i) == ReplaceAll(M, <<>>, s, i)

\* text.split(/pattern/) from position i, for a pattern that matches no
\* empty string.
RECURSIVE SplitBy(_, _, _)
SplitBy(M(_, _), s, i) ==
    LET k == FirstMatch(M, s, i)
    IN  IF k > Len(s) THEN <<SubSeq(s, i, Len(s))>>
        ELSE <<SubSeq(s, i, k - 1)>> \o SplitBy(M, s, M(s, k))

Letters == LowerCase \cup UpperCase

\* /\x1B\][^\x07\x1B]*(?:\x07|\x1B\\)/
OscEscRe(s, i) ==
    IF At(s, i) = ESC /\ At(s, i + 1) = "]"
    THEN LET j == RunEndNot(s, i + 2, {BEL, ESC})
         IN  IF At(s, j) = BEL THEN j + 1
             ELSE IF At(s, j) = ESC /\ At(s, j + 1) = "\\" THEN j + 2
             ELSE 0
    ELSE 0

\* /\][0-9]{1,4};[^\x07]*\x07/
OscBareRe(s, i) ==
    IF At(s, i) = "]"
    THEN LET d == RunEnd(s, i + 1, Digits)
             j == RunEndNot(s, d + 1, {BEL})
         IN  IF d - (i + 1) >= 1 /\ d - (i + 1) <= 4 /\ At(s, d) = ";" /\ At(s, j) = BEL
             THEN j + 1 ELSE 0
    ELSE 0

\* /\x1B\[[0-9;?]*[A-Za-z]/
CsiEscRe(s, i) ==
    IF At(s, i) = ESC /\ At(s, i + 1) = "["
    THEN LET j == RunEnd(s, i + 2, Digits \cup {";", "?"})
         IN  IF At(s, j) \in Letters THEN j + 1 ELSE 0
    ELSE 0

\* /\[[\?><!][0-9;]*[A-Za-z]/
CsiBareRe(s, i) ==
    IF At(s, i) = "[" /\ At(s, i + 1) \in {"?", ">", "<", "!"}
    THEN LET j == RunEnd(s, i + 2, Digits \cup {";"})
         IN  IF At(s, j) \in Letters THEN j + 1 ELSE 0
    ELSE 0

\* /\x1B[=>]/
EscKeypadRe(s, i) ==
    IF At(s, i) = ESC /\ At(s, i + 1) \in {"=", ">"} THEN i + 2 ELSE 0

\* /\x1B[\[\]()#;?]*[0-9;]*[A-Za-z@]/
EscOtherRe(s, i) ==
    IF At(s, i) = ESC
    THEN LET j == RunEnd(s, i + 1, {"[", "]", "(", ")", "#", ";", "?"})
             k == RunEnd(s, j, Digits \cup {";"})
         IN  IF At(s, k) \in Letters \cup {"@"} THEN k + 1 ELSE 0
    ELSE 0

\* /\x1B\]1337;[^\x07]*\x07/
Iterm1337Re(s, i) ==
    IF MatchAt(s, i, <<ESC>> \o Chars("]1337;"))
    THEN LET j == RunEndNot(s, i + 7, {BEL}) IN IF At(s, j) = BEL THEN j + 1 ELSE 0
    ELSE 0

\* /\x1B\]133;[^\x07]*\x07/
Iterm133Re(s, i) ==
    IF MatchAt(s, i, <<ESC>> \o Chars("]133;"))
    THEN LET j == RunEndNot(s, i + 6, {BEL}) IN IF At(s, j) = BEL THEN j + 1 ELSE 0
    ELSE 0

\* /\]133;[A-Z];?[0-9]*/
Bare133Re(s, i) ==
    IF MatchAt(s, i, Chars("]133;")) /\ At(s, i + 5) \in UpperCase
    THEN RunEnd(s, IF At(s, i + 6) = ";" THEN i + 7 ELSE i + 6, Digits)
    ELSE 0

\* /\]1337;[^\n]*/
Bare1337Re(s, i) ==
    IF MatchAt(s, i, Chars("]1337;")) THEN RunEndNot(s, i + 6, {"\n"}) ELSE 0

\* /\[[\?>][0-9;]+[hlm]/
PrivateModeRe(s, i) ==
    IF At(s, i) = "[" /\ At(s, i + 1) \in {"?", ">"}
    THEN LET j == RunEnd(s, i + 2, Digits \cup {";"})
         IN  IF j > i + 2 /\ At(s, j) \in {"h", "l", "m"} THEN j + 1 ELSE 0
    ELSE 0

\* /\[<[0-9;]+[A-Za-z]/
MouseRe(s, i) ==
    IF At(s, i) = "[" /\ At(s, i + 1) = "<"
    THEN LET j == RunEnd(s, i + 2, Digits \cup {";"})
         IN  IF j > i + 2 /\ At(s, j) \in Letters THEN j + 1 ELSE 0
    ELSE 0

\* /[⠀-⣿]/ and /[⠀-⣿]/ (the same range)
IsBraille(c) == Len(c) = 6 /\ SubSeq(c, 1, 4) = "U+28"

\* The class with its third range ending at \x1A, one short of ESC.
StrippedControlsBelowEsc ==
    {"U+000" \o HexChar(l) : l \in 0..8} \cup {"U+000B", "\f", "U+000E", "U+000F"}
    \cup {"U+001" \o HexChar(l) : l \in 0..10} \cup {"U+007F"}

\* /[\x00-\x08\x0B-\x0C\x0E-\x1F\x7F]/
StrippedControls ==
    {"U+000" \o HexChar(l) : l \in 0..8} \cup {"U+000B", "\f", "U+000E", "U+000F"}
    \cup {"U+001" \o HexChar(l) : l \in 0..15} \cup {"U+007F"}

\* Lines 575-612: the character-level passes of stripAnsiCodes, in order.
StripSequences(text) ==
    LET c1 == RemoveAll(OscEscRe, text, 1)
        c2 == RemoveAll(OscBareRe, c1, 1)
        c3 == RemoveAll(CsiEscRe, c2, 1)
        c4 == RemoveAll(CsiBareRe, c3, 1)
        c5 == RemoveAll(EscKeypadRe, c4, 1)
        c6 == RemoveAll(EscOtherRe, c5, 1)
        c7 == RemoveAll(Iterm1337Re, c6, 1)
        c8 == RemoveAll(Iterm133Re, c7, 1)
        c9 == RemoveAll(Bare133Re, c8, 1)
        c10 == RemoveAll(Bare1337Re, c9, 1)
        c11 == RemoveAll(PrivateModeRe, c10, 1)
        c12 == RemoveAll(MouseRe, c11, 1)
        c13 == SelectSeq(c12, LAMBDA c : ~IsBraille(c))
        c14 == SelectSeq(c13, LAMBDA c : c \notin StrippedControls)
    IN  SelectSeq(c14, LAMBDA c : c # "\r")

-----------------------------------------------------------------------------
(* stripAnsiCodes, lines 614-714: the line-level passes *)

\* /^%\s+➜\s+\S+\s+(.+)$/.exec(line): whether it matches, and group 1.
PromptWithCommand(line) ==
    LET j1 == RunEnd(line, 2, WhiteSpace)
        j2 == RunEnd(line, j1 + 1, WhiteSpace)
        j3 == RunEndNot(line, j2, WhiteSpace)
        j4 == RunEnd(line, j3, WhiteSpace)
    IN  IF At(line, 1) = "%" /\ j1 > 2 /\ At(line, j1) = ARROW /\ j2 > j1 + 1
           /\ j3 > j2 /\ j4 > j3
        THEN IF j4 <= Len(line) THEN [m |-> TRUE, g |-> SubSeq(line, j4, Len(line))]
             \* only white space is left: \s+ gives its last character to (.+)
             ELSE IF j4 - j3 >= 2 THEN [m |-> TRUE, g |-> <<line[Len(line)]>>]
             ELSE [m |-> FALSE, g |-> <<>>]
        ELSE [m |-> FALSE, g |-> <<>>]

\* /^%\s+➜\s+\S+\s*$/.exec(line)
JustPrompt(line) ==
    LET j1 == RunEnd(line, 2, WhiteSpace)
        j2 == RunEnd(line, j1 + 1, WhiteSpace)
        j3 == RunEndNot(line, j2, WhiteSpace)
    IN  /\ At(line, 1) = "%" /\ j1 > 2 /\ At(line, j1) = ARROW /\ j2 > j1 + 1
        /\ j3 > j2 /\ RunEnd(line, j3, WhiteSpace) > Len(line)

\* /\s{2,}/
SpaceRunRe(s, i) ==
    LET e == RunEnd(s, i, WhiteSpace) IN IF e - i >= 2 THEN e ELSE 0

\* Lines 620-656: what one line contributes to collapsed (nothing or one line).
CollapseLine(line) ==
    LET pwc == PromptWithCommand(line)
        parts == SplitBy(SpaceRunRe, line, 1)
        uniqueParts == {Trim(parts[k]) : k \in 1..Len(parts)} \ {<<>>}
        lastPart == Trim(parts[Len(parts)])
    IN  IF pwc.m THEN (IF Trim(pwc.g) # <<>> THEN <<Trim(pwc.g)>> ELSE <<>>)
        ELSE IF JustPrompt(line) THEN <<>>
        ELSE IF Len(parts) > 3 /\ Cardinality(uniqueParts) \in {1, 2}
        THEN (IF lastPart # <<>> THEN <<lastPart>> ELSE <<>>)
        ELSE <<line>>

\* Lines 618-657: the first pass over the lines.
RECURSIVE Collapse(_)
Collapse(lines) ==
    IF lines = <<>> THEN <<>> ELSE CollapseLine(Head(lines)) \o Collapse(Tail(lines))

\* /^(Preparing|Writing|Starting|Installing|Joining)/
ProgressPattern(t) ==
    \E verb \in {"Preparing", "Writing", "Starting", "Installing", "Joining"} :
        StartsWith(t, Chars(verb))

\* /^\d+ms\s+\d+[smh]\s+ago/
HistoryAgeRe(t) ==
    LET d1 == RunEnd(t, 1, Digits)
        w1 == RunEnd(t, d1 + 2, WhiteSpace)
        d2 == RunEnd(t, w1, Digits)
        w2 == RunEnd(t, d2 + 1, WhiteSpace)
    IN  /\ d1 > 1 /\ MatchAt(t, d1, Chars("ms")) /\ w1 > d1 + 2
        /\ d2 > w1 /\ At(t, d2) \in {"s", "m", "h"} /\ w2 > d2 + 1
        /\ MatchAt(t, w2, Chars("ago"))

\* /ago[a-z]+[A-Z]/
AgoWordRe(t) ==
    \E i \in 1..Len(t) :
        /\ MatchAt(t, i, Chars("ago"))
        /\ RunEnd(t, i + 3, LowerCase) > i + 3
        /\ At(t, RunEnd(t, i + 3, LowerCase)) \in UpperCase

\* /^[➜→✗]\s+\S+\s+\//
PromptPathRe(t) ==
    LET j1 == RunEnd(t, 2, WhiteSpace)
        j2 == RunEndNot(t, j1, WhiteSpace)
        j3 == RunEnd(t, j2, WhiteSpace)
    IN  /\ At(t, 1) \in {ARROW, RARROW, BALLOTX} /\ j1 > 2 /\ j2 > j1 /\ j3 > j2
        /\ At(t, j3) = "/"

\* Lines 678-691: an incomplete progress line with a completed one ahead,
\* before any non-blank line that is no progress line.
ProgressSuperseded(collapsed, index) ==
    LET t(k) == Trim(collapsed[k])
    IN  /\ ProgressPattern(t(index)) /\ ~Includes(t(index), <<CHECK>>)
        /\ \E j \in (index + 1)..Len(collapsed) :
              /\ Includes(t(j), <<CHECK>>) /\ ProgressPattern(t(j))
              /\ \A m \in (index + 1)..(j - 1) :
                    ~(t(m) # <<>> /\ ~ProgressPattern(t(m)))

\* The duplicate test with every earlier line compared.
DuplicateOfAnyEarlier(collapsed, index) ==
    \E j \in 1..(index - 1) :
        Trim(collapsed[j]) = Trim(collapsed[index]) /\ Len(Trim(collapsed[index])) > 10

\* Lines 693-697: the trimmed line equals the trimmed line before it and is
\* longer than 10 characters.
DuplicateOfPrevious(collapsed, index) ==
    /\ index > 1
    /\ Trim(collapsed[index - 1]) = Trim(collapsed[index])
    /\ Len(Trim(collapsed[index])) > 10

\* Lines 659-706: the filter callback, true for a line that is kept.
KeepLine(collapsed, index) ==
    LET trimmed == Trim(collapsed[index])
    IN  IF trimmed = <<>> THEN TRUE
        ELSE IF \A k \in 1..Len(trimmed) : trimmed[k] \in {">", "[", "<", "]"} THEN FALSE
        ELSE IF trimmed = <<"%">> THEN FALSE
        ELSE IF Includes(trimmed, Chars("Atuin v")) \/ Includes(trimmed, Chars("<esc>: exit"))
        THEN FALSE
        ELSE IF Includes(trimmed, Chars("Search") \o <<"U+2502">> \o Chars("Inspect"))
                \/ Includes(trimmed, Chars("history count:")) THEN FALSE
        ELSE IF Includes(trimmed, Chars("[GLOBAL]")) THEN FALSE
        ELSE IF HistoryAgeRe(trimmed) THEN FALSE
        ELSE IF AgoWordRe(trimmed) THEN FALSE
        ELSE IF ProgressSuperseded(collapsed, index) THEN FALSE
        ELSE IF DuplicateOfPrevious(collapsed, index) THEN FALSE
        ELSE IF PromptPathRe(trimmed) THEN FALSE
        ELSE TRUE

\* collapsed.filter(...)
RECURSIVE FilterFrom(_, _)
FilterFrom(collapsed, index) ==
    IF index > Len(collapsed) THEN <<>>
    ELSE (IF KeepLine(collapsed, index) THEN <<collapsed[index]>> ELSE <<>>)
         \o FilterFrom(collapsed, index + 1)

\* /\n{3,}/
NewlineRunRe(s, i) ==
    LET e == RunEnd(s, i, {"\n"}) IN IF e - i >= 3 THEN e ELSE 0

\* stripAnsiCodes(text)
stripAnsiCodes(text) ==
    ReplaceAll(NewlineRunRe, <<"\n", "\n">>,
               Join(FilterFrom(Collapse(Split(StripSequences(text), "\n")), 1), <<"\n">>), 1)

-----------------------------------------------------------------------------
(* isCommandLine, extractCommand, parseTerminalOutput: lines 716-836 *)

LowerOf(c) ==
    IF c \in UpperCase
    THEN LET n == CHOOSE n \in 1..26 : SubSeq("ABCDEFGHIJKLMNOPQRSTUVWXYZ", n, n) = c
         IN  SubSeq("abcdefghijklmnopqrstuvwxyz", n, n)
    ELSE c

\* Whether s starts with p, letter case ignored (the regex flag i).
StartsWithIgnoreCase(s, p) ==
    Len(s) >= Len(p) /\ \A k \in 1..Len(p) : LowerOf(s[k]) = LowerOf(p[k])

\* /^[🔮ℹ️✓🟥⚠️]/u: the first code point is one of those of the class (the
\* two emoji outside the basic plane are surrogate pairs).
OutputMarkerRe(t) ==
    \/ At(t, 1) \in {"U+2139", "U+FE0F", CHECK, "U+26A0"}
    \/ At(t, 1) = "U+D83D" /\ At(t, 2) \in {"U+DD2E", "U+DFE5"}

\* /^(Creating|Set|You can|Have a|Total|Kubernetes|CoreDNS|To further|I\d{4})/i
SentenceOpenerRe(t) ==
    \/ \E w \in {"Creating", "Set", "You can", "Have a", "Total", "Kubernetes",
                 "CoreDNS", "To further"} : StartsWithIgnoreCase(t, Chars(w))
    \/ At(t, 1) \in {"I", "i"} /\ \A k \in 2..5 : At(t, k) \in Digits

\* /^[A-Z][a-z]+.*:/
CapitalColonRe(t) ==
    /\ At(t, 1) \in UpperCase /\ At(t, 2) \in LowerCase
    /\ \E k \in 3..Len(t) : t[k] = ":"

WordChars == Letters \cup Digits \cup {"_", "-"}

\* /^[a-zA-Z_][a-zA-Z0-9_-]*@[a-zA-Z0-9_-]+[:#~]/
UserHostRe(t) ==
    LET j == RunEnd(t, 2, WordChars)
        k == RunEnd(t, j + 1, WordChars)
    IN  /\ At(t, 1) \in Letters \cup {"_"} /\ At(t, j) = "@" /\ k > j + 1
        /\ At(t, k) \in {":", "#", "~"}

\* /^[➜→✗]\s+[a-zA-Z0-9_-]+\s+/
DecoratedPromptRe(t) ==
    LET j1 == RunEnd(t, 2, WhiteSpace)
        j2 == RunEnd(t, j1, WordChars)
    IN  /\ At(t, 1) \in {ARROW, RARROW, BALLOTX} /\ j1 > 2 /\ j2 > j1
        /\ At(t, j2) \in WhiteSpace

commonCommands ==
    {Chars(c) : c \in
        {"ls", "cd", "pwd", "mkdir", "rm", "cp", "mv", "cat", "echo", "grep", "find",
         "kubectl", "docker", "git", "npm", "yarn", "curl", "wget", "make", "go",
         "python", "node", "java", "cargo", "brew", "apt", "yum", "systemctl",
         "kind", "helm", "cilium", "terraform", "ansible", "ssh", "scp", "rsync",
         "vi", "vim", "nano", "emacs", "less", "more", "head", "tail", "awk", "sed"}}

\* Line 744: trimmed.split(/\s+/)[0]
potentialCommand(trimmed) == SubSeq(trimmed, 1, RunEndNot(trimmed, 1, WhiteSpace) - 1)

\* A faulty CommandNameRule without the colon test of line 756.
CommandNameRuleAnyColon(trimmed) ==
    potentialCommand(trimmed) \in commonCommands /\ At(trimmed, 1) \notin UpperCase

\* Lines 754-757: the first word is a known command.
CommandNameRule(trimmed) ==
    /\ potentialCommand(trimmed) \in commonCommands /\ At(trimmed, 1) \notin UpperCase
    /\ ~Includes(trimmed, <<":">>) \/ Includes(trimmed, Chars("--"))

\* isCommandLine(line)
isCommandLine(line) ==
    LET trimmed == Trim(line)
    IN  IF trimmed = <<>> THEN FALSE
        ELSE IF OutputMarkerRe(trimmed) THEN FALSE
        ELSE IF SentenceOpenerRe(trimmed) THEN FALSE
        ELSE IF StartsWith(trimmed, Chars("==>")) \/ StartsWith(trimmed, Chars("---"))
        THEN FALSE
        ELSE IF CapitalColonRe(trimmed) /\ ~Includes(trimmed, <<"$">>)
                /\ ~Includes(trimmed, <<"#">>) /\ Includes(trimmed, Chars("cilium image"))
        THEN FALSE
        ELSE IF At(trimmed, 1) \in {"$", "#"} /\ At(trimmed, 2) \in WhiteSpace THEN TRUE
        ELSE IF UserHostRe(trimmed) THEN TRUE
        ELSE IF DecoratedPromptRe(trimmed) THEN TRUE
        ELSE IF CommandNameRule(trimmed) THEN TRUE
        ELSE IF At(trimmed, 1) \in {".", "/", "~"} THEN TRUE
        ELSE FALSE

\* cmd.replace(/^[➜→✗]\s+[^\s]+\s+/, '')
StripDecoratedPrompt(cmd) ==
    LET j1 == RunEnd(cmd, 2, WhiteSpace)
        j2 == RunEndNot(cmd, j1, WhiteSpace)
        j3 == RunEnd(cmd, j2, WhiteSpace)
    IN  IF At(cmd, 1) \in {ARROW, RARROW, BALLOTX} /\ j1 > 2 /\ j2 > j1 /\ j3 > j2
        THEN SubSeq(cmd, j3, Len(cmd)) ELSE cmd

\* cmd.replace(/^[a-zA-Z_][a-zA-Z0-9_-]*@[a-zA-Z0-9_-]+:[^\$#]*[\$#]\s*/, '')
StripUserHostPrompt(cmd) ==
    LET j == RunEnd(cmd, 2, WordChars)
        k == RunEnd(cmd, j + 1, WordChars)
        d == RunEndNot(cmd, k + 1, {"$", "#"})
    IN  IF At(cmd, 1) \in Letters \cup {"_"} /\ At(cmd, j) = "@" /\ k > j + 1
           /\ At(cmd, k) = ":" /\ At(cmd, d) \in {"$", "#"}
        THEN SubSeq(cmd, RunEnd(cmd, d + 1, WhiteSpace), Len(cmd)) ELSE cmd

\* cmd.replace(/^[\$#]\s*/, '')
StripShellPrompt(cmd) ==
    IF At(cmd, 1) \in {"$", "#"}
    THEN SubSeq(cmd, RunEnd(cmd, 2, WhiteSpace), Len(cmd)) ELSE cmd

\* cmd.replace(/^m\s+/, '')
StripArtifact(cmd) ==
    IF At(cmd, 1) = "m" /\ RunEnd(cmd, 2, WhiteSpace) > 2
    THEN SubSeq(cmd, RunEnd(cmd, 2, WhiteSpace), Len(cmd)) ELSE cmd

\* extractCommand(line)
extractCommand(line) ==
    StripArtifact(StripShellPrompt(StripUserHostPrompt(StripDecoratedPrompt(Trim(line)))))

\* No open block (currentBlock = null).
NoBlock == [type |-> "null", content |-> <<>>]

\* A faulty OutputBlock that loses the line that opens the block.
OutputBlockWithoutLine(line) == [type |-> "output", content |-> <<"\n">>]

CommandBlock(command) == [type |-> "command", content |-> <<"$", " ">> \o command \o <<"\n">>]
OutputBlock(line) == [type |-> "output", content |-> line \o <<"\n">>]

\* A faulty BlankStep that appends the newline to a command block too.
BlankStepAnyBlock(st) ==
    IF st.currentBlock.type \in {"output", "command"}
    THEN [st EXCEPT !.currentBlock.content = @ \o <<"\n">>]
    ELSE st

\* Lines 795-799: a blank line, from the state st = [blocks, currentBlock].
BlankStep(st) ==
    IF st.currentBlock.type = "output"
    THEN [st EXCEPT !.currentBlock.content = @ \o <<"\n">>]
    ELSE st

\* A faulty CommandStep that leaves the closed block open when the command
\* is empty (line 814 missing).
CommandStepWithoutReset(st, line) ==
    [blocks |-> IF st.currentBlock # NoBlock
                THEN Append(st.blocks, st.currentBlock) ELSE st.blocks,
     currentBlock |-> IF extractCommand(line) # <<>>
                      THEN CommandBlock(extractCommand(line)) ELSE st.currentBlock]

\* Lines 805-815: a command line.
CommandStep(st, line) ==
    [blocks |-> IF st.currentBlock # NoBlock
                THEN Append(st.blocks, st.currentBlock) ELSE st.blocks,
     currentBlock |-> IF extractCommand(line) # <<>>
                      THEN CommandBlock(extractCommand(line)) ELSE NoBlock]

\* A faulty OutputStep that closes an open output block as it closes a
\* command block.
OutputStepNewBlock(st, line) ==
    IF st.currentBlock.type \in {"command", "output"}
    THEN [blocks |-> Append(st.blocks, st.currentBlock), currentBlock |-> OutputBlock(line)]
    ELSE [st EXCEPT !.currentBlock = OutputBlock(line)]

\* Lines 816-827: a non-blank line that is no command line.
OutputStep(st, line) ==
    IF st.currentBlock.type = "command"
    THEN [blocks |-> Append(st.blocks, st.currentBlock), currentBlock |-> OutputBlock(line)]
    ELSE IF st.currentBlock.type = "output"
    THEN [st EXCEPT !.currentBlock.content = @ \o line \o <<"\n">>]
    ELSE [st EXCEPT !.currentBlock = OutputBlock(line)]

\* Lines 793-828: one iteration of the loop on a line, from the state
\* st = [blocks, currentBlock].
ParseStep(st, line) ==
    IF Trim(line) = <<>> THEN BlankStep(st)
    ELSE IF isCommandLine(line) THEN CommandStep(st, line)
    ELSE OutputStep(st, line)

\* The loop of lines 793-828 over lines[i..].
RECURSIVE ParseLoop(_, _, _)
ParseLoop(st, lines, i) ==
    IF i > Len(lines) THEN st ELSE ParseLoop(ParseStep(st, lines[i]), lines, i + 1)

\* A faulty parseTerminalOutput that emits the block still open at the end
\* of the input before the others.
parseTerminalOutputOpenBlockFirst(out) ==
    LET st == ParseLoop([blocks |-> <<>>, currentBlock |-> NoBlock], Split(out, "\n"), 1)
    IN  IF st.currentBlock # NoBlock THEN <<st.currentBlock>> \o st.blocks ELSE st.blocks

\* parseTerminalOutput(output)
parseTerminalOutput(out) ==
    LET st == ParseLoop([blocks |-> <<>>, currentBlock |-> NoBlock], Split(out, "\n"), 1)
    IN  IF st.currentBlock # NoBlock THEN Append(st.blocks, st.currentBlock) ELSE st.blocks

-----------------------------------------------------------------------------
(* convertCastToMarkdown: lines 838-948 *)

\* The markdown is kept as the sequence of the strings appended to it, one
\* per markdown += (or the one returned string of a diagnostic).
Text(pieces) == Join(pieces, <<>>)

\* The code fence: three grave accents.
Fence == <<"U+0060", "U+0060", "U+0060">>

\* A diagnostic: the message alone in one fenced block.
Diagnostic(message) == <<Fence \o Chars("\n") \o Chars(message) \o Chars("\n") \o Fence>>

EmptyDiagnostic == Diagnostic("Empty cast file")
InvalidHeaderDiagnostic == Diagnostic("Invalid cast file format: Could not parse header")
ErrorDiagnostic == Diagnostic("Error converting cast file to markdown")

\* A faulty CastLines without the trim of line 840.
CastLinesUntrimmed(content) == Split(content, "\n")

\* Line 840: castContent.trim().split('\n')
CastLines(content) == Split(Trim(content), "\n")

\* Lines 858-867: the event of one non-blank line, or nothing when
\* JSON.parse or the reading of event[0] throws.
\* A faulty PushEvent that pushes an event in the catch of line 865 too.
PushEventInCatch(r) ==
    IF r.ok /\ ~ThrowsOnAccess(r.v)
    THEN <<[time |-> GetProp(r.v, <<"0">>), type |-> GetProp(r.v, <<"1">>),
            data |-> GetProp(r.v, <<"2">>)]>>
    ELSE <<[time |-> Undefined, type |-> Undefined, data |-> Undefined]>>

PushEvent(r) ==
    IF r.ok /\ ~ThrowsOnAccess(r.v)
    THEN <<[time |-> GetProp(r.v, <<"0">>), type |-> GetProp(r.v, <<"1">>),
            data |-> GetProp(r.v, <<"2">>)]>>
    ELSE <<>>

ParseEventLine(line) == PushEvent(JSONParse(line))

\* Lines 855-869: the events of lines[i..].
RECURSIVE ParseEvents(_, _)
ParseEvents(lines, i) ==
    IF i > Len(lines) THEN <<>>
    ELSE (IF Trim(lines[i]) # <<>> THEN ParseEventLine(lines[i]) ELSE <<>>)
         \o ParseEvents(lines, i + 1)

\* A faulty AggregateOutput without the test of line 893.
RECURSIVE AggregateEveryType(_)
AggregateEveryType(evs) ==
    IF evs = <<>> THEN <<>> ELSE ToStr(Head(evs).data) \o AggregateEveryType(Tail(evs))

\* Lines 891-896: the concatenated data of the output events.
RECURSIVE AggregateOutput(_)
AggregateOutput(evs) ==
    IF evs = <<>> THEN <<>>
    ELSE (IF Head(evs).type = Str(<<"o">>) THEN ToStr(Head(evs).data) ELSE <<>>)
         \o AggregateOutput(Tail(evs))

\* The naturals of a finite set in ascending order.
RECURSIVE Ascending(_)
Ascending(S) ==
    IF S = {} THEN <<>>
    ELSE LET m == CHOOSE m \in S : \A n \in S : m <= n
         IN  <<m>> \o Ascending(S \ {m})

\* Line 928: the floored time of each event.
Seconds(evs) == [k \in 1..Len(evs) |-> MathFloor(evs[k].time)]

\* Object.keys(eventsBySecond).map(Number): array-index keys first in
\* ascending order, then the other keys (negative seconds, NaN) in the
\* order of their first insertion.
SecondKeys(secs) ==
    LET first == {k \in 1..Len(secs) : \A m \in 1..(k - 1) : secs[m] # secs[k]}
        isIndex(k) == secs[k].t = "num" /\ ~secs[k].neg
        indexKeys == Ascending({secs[k].int : k \in {n \in first : isIndex(n)}})
        others == Ascending({k \in first : ~isIndex(k)})
    IN  [n \in 1..Len(indexKeys) |-> IntNum(indexKeys[n])]
        \o [n \in 1..Len(others) |-> secs[others[n]]]

\* (a, b) => a - b is positive: a sorts after b.  With NaN it is NaN, which
\* sort treats as 0.
SortsAfter(a, b) == a.t = "num" /\ b.t = "num" /\ IntOf(a) > IntOf(b)

\* x inserted into the sorted sequence a, after the last element it does
\* not sort before.
InsertSorted(a, x) ==
    LET n == CHOOSE n \in 0..Len(a) :
                 /\ n = 0 \/ ~SortsAfter(a[n], x)
                 /\ \A m \in (n + 1)..Len(a) : SortsAfter(a[m], x)
    IN  SubSeq(a, 1, n) \o <<x>> \o SubSeq(a, n + 1, Len(a))

\* keys.sort((a, b) => a - b)
RECURSIVE SortSeconds(_)
SortSeconds(keys) ==
    IF keys = <<>> THEN <<>>
    ELSE InsertSorted(SortSeconds(SubSeq(keys, 1, Len(keys) - 1)), keys[Len(keys)])

\* A faulty SlotCounts that counts a second once (line 929 without the + 1).
SlotCountsOnce(secs, slots) == [n \in 1..Len(slots) |-> [time |-> slots[n], count |-> 1]]

\* The rows [time, count] for the sorted keys: eventsBySecond[time].
SlotCounts(secs, slots) ==
    [n \in 1..Len(slots) |->
        [time |-> slots[n],
         count |-> Cardinality({k \in 1..Len(secs) : secs[k] = slots[n]})]]

\* Lines 926-935: the rows of the timeline.
TimeRows(secs) == SlotCounts(secs, SortSeconds(SecondKeys(secs)))

TimeSlots(evs) == TimeRows(Seconds(evs))

\* time.toFixed(1) of an integer-valued number or NaN
ToFixed1(v) == IF v.t = "nan" THEN Chars("NaN") ELSE NumberToString(v) \o Chars(".0")

\* new Date(timestamp * 1000).toLocaleString(): the text depends on the
\* locale and time zone of the host; the model keeps the instant it shows.
DateText(n) ==
    IF n.t = "nan" THEN Chars("Invalid Date")
    ELSE Chars("Date(") \o NatChars(ShiftPoint(n.neg, NatChars(n.int), n.frac, 3).int)
         \o Chars(" ms)")

DateLocaleString(timestamp) == DateText(ToNumber(timestamp))

\* Object.entries(v) of a truthy value: own keys (array-index keys first,
\* ascending) with their values.
Entries(v) ==
    CASE v.t = "obj" ->
            LET idx == {n \in 1..Len(v.keys) : IsIndexKey(v.keys[n])}
                byValue == Ascending({DigitsToNat(v.keys[n], 0) : n \in idx})
                named == Ascending((1..Len(v.keys)) \ idx)
            IN  [n \in 1..Len(byValue) |->
                    <<NatChars(byValue[n]), GetProp(v, NatChars(byValue[n]))>>]
                \o [n \in 1..Len(named) |-> <<v.keys[named[n]], v.vals[named[n]]>>]
      [] v.t = "arr" -> [n \in 1..Len(v.items) |-> <<NatChars(n - 1), v.items[n]>>]
      [] v.t = "str" -> [n \in 1..Len(v.s) |-> <<NatChars(n - 1), Str(<<v.s[n]>>)>>]
      [] OTHER -> <<>>

\* Lines 872-888: title and Recording Information.
RenderHeader(hdr, name) ==
    LET title == GetProp(hdr, Chars("title"))
        timestamp == GetProp(hdr, Chars("timestamp"))
        env == GetProp(hdr, Chars("env"))
        entries == Entries(env)
    IN  <<Chars("# Terminal Recording: ")
            \o (IF Truthy(title) THEN ToStr(title) ELSE name) \o Chars("\n\n"),
          Chars("## Recording Information\n\n"),
          Chars("- **File**: ") \o name \o Chars("\n"),
          Chars("- **Version**: ") \o ToStr(GetProp(hdr, Chars("version"))) \o Chars("\n"),
          Chars("- **Dimensions**: ") \o ToStr(GetProp(hdr, Chars("width")))
            \o <<" ", "U+00D7", " ">> \o ToStr(GetProp(hdr, Chars("height")))
            \o Chars("\n")>>
        \o (IF Truthy(timestamp)
            THEN <<Chars("- **Recorded**: ") \o DateLocaleString(timestamp) \o Chars("\n")>>
            ELSE <<>>)
        \o (IF Truthy(env)
            THEN <<Chars("- **Environment**:\n")>>
                 \o [n \in 1..Len(entries) |->
                        Chars("  - ") \o entries[n][1] \o Chars(": ")
                        \o ToStr(entries[n][2]) \o Chars("\n")]
            ELSE <<>>)

\* Lines 905-919: the Terminal Session section.
RECURSIVE RenderBlocks(_)
RenderBlocks(bs) ==
    IF bs = <<>> THEN <<>>
    ELSE <<Fence \o (IF Head(bs).type = "command" THEN Chars("bash\n") ELSE Chars("\n")),
           Trim(Head(bs).content) \o Chars("\n"),
           Fence \o Chars("\n\n")>>
         \o RenderBlocks(Tail(bs))

\* Lines 922-941: the Timeline section and the footer.
RenderTimeline(evs, slots) ==
    <<Chars("## Timeline\n\n"),
      Chars("Total events: ") \o NatChars(Len(evs)) \o Chars("\n\n"),
      Chars("| Time (s) | Events |\n"),
      Chars("|----------|--------|\n")>>
    \o [n \in 1..Len(slots) |->
           Chars("| ") \o ToFixed1(slots[n].time) \o Chars(" | ")
           \o NatChars(slots[n].count) \o Chars(" |\n")]
    \o <<Chars("\n---\n\n"), Chars("*Generated from asciinema cast file*\n")>>

\* The local variables of convertCastToMarkdown when it returns; a local
\* the call never assigned has its initial value here.
Unassigned ==
    [header |-> Undefined, events |-> <<>>, terminalOutput |-> <<>>,
     cleanOutput |-> <<>>, blocks |-> <<>>, timeSlots |-> <<>>, markdown |-> <<>>]

\* Lines 872-943: the document of a header and its events.
Rendered(hdr, evs, out, clean, bs, slots, name) ==
    [header |-> hdr, events |-> evs, terminalOutput |-> out,
     cleanOutput |-> clean, blocks |-> bs, timeSlots |-> slots,
     markdown |-> RenderHeader(hdr, name)
                  \o <<Chars("\n## Terminal Session\n\n")>>
                  \o RenderBlocks(bs)
                  \o RenderTimeline(evs, slots)]

\* Lines 899-902: the aggregated text stripped, then cut into blocks.
RenderClean(hdr, evs, out, clean, name) ==
    Rendered(hdr, evs, out, clean, parseTerminalOutput(clean), TimeSlots(evs), name)

RenderOutput(hdr, evs, out, name) == RenderClean(hdr, evs, out, stripAnsiCodes(out), name)

\* Lines 872-943 after the events are parsed; header.title of null or
\* undefined is a TypeError, caught at line 944.
RenderEvents(hdr, evs, name) ==
    IF ThrowsOnAccess(hdr)
    THEN [Unassigned EXCEPT !.header = hdr, !.events = evs, !.markdown = ErrorDiagnostic]
    ELSE RenderOutput(hdr, evs, AggregateOutput(evs), name)

\* A faulty ConvertHeader whose catch of line 850 does not return.
ConvertHeaderWithoutReturn(hp, lines, name) ==
    RenderEvents(IF hp.ok THEN hp.v ELSE Obj(<<>>, <<>>), ParseEvents(lines, 2), name)

\* Lines 848-869 for the parse hp of the first line.
ConvertHeader(hp, lines, name) ==
    IF ~hp.ok THEN [Unassigned EXCEPT !.markdown = InvalidHeaderDiagnostic]
    ELSE RenderEvents(hp.v, ParseEvents(lines, 2), name)

\* Lines 842-849
ConvertLines(lines, name) ==
    IF Len(lines) = 0 THEN [Unassigned EXCEPT !.markdown = EmptyDiagnostic]
    ELSE ConvertHeader(JSONParse(lines[1]), lines, name)

\* convertCastToMarkdown(castContent, fileName): its locals and its result.
ConvertRun(content, name) == ConvertLines(CastLines(content), name)

convertCastToMarkdown(content, name) == Text(ConvertRun(content, name).markdown)

-----------------------------------------------------------------------------
(* POST: lines 526-571 *)

\* An entry of the logging directory: no such entry, a file with its
\* content, or an entry that exists and that readFileSync cannot read (a
\* directory, a file without read permission).
NoFile == [kind |-> "missing"]
File(content) == [kind |-> "file", content |-> content]
Unreadable == [kind |-> "unreadable"]

\* NextResponse.json(body, {status})
Json(status, body) == [status |-> status, body |-> body]

\* Line 544: files.filter(file => file.endsWith('.cast'))
CastFiles(names) == SelectSeq(names, LAMBDA file : EndsWith(file.s, Chars(".cast")))

\* Lines 546-561: the loop over castFiles from index i, markdownData so far
\* in acc; ok is false when readFileSync throws.
RECURSIVE ProcessFiles(_, _, _, _)
ProcessFiles(dir, castFiles, i, acc) ==
    IF i > Len(castFiles) THEN [ok |-> TRUE, markdownData |-> acc]
    ELSE IF dir[castFiles[i].s].kind = "missing" THEN ProcessFiles(dir, castFiles, i + 1, acc)
    ELSE IF dir[castFiles[i].s].kind = "unreadable" THEN [ok |-> FALSE, markdownData |-> acc]
    ELSE ProcessFiles(dir, castFiles, i + 1,
             Append(acc, Obj(<<Chars("fileName"), Chars("markdown")>>,
                             <<castFiles[i],
                               Str(convertCastToMarkdown(dir[castFiles[i].s].content,
                                                         castFiles[i].s))>>)))

\* Lines 563-570: the response after the loop.
Respond(loop) ==
    IF loop.ok
    THEN Json(200, Obj(<<Chars("markdowns"), Chars("count")>>,
                       <<Arr(loop.markdownData), IntNum(Len(loop.markdownData))>>))
    ELSE Json(500, Obj(<<Chars("error")>>,
                       <<Str(Chars("Failed to convert cast files to markdown"))>>))

\* The response of POST to a request whose body has the given files, with
\* the logging directory as given.
POST(dirExists, dir, fs) ==
    IF ~dirExists
    THEN Json(200, Obj(<<Chars("markdowns"), Chars("message")>>,
                       <<Arr(<<>>), Str(Chars("No logging directory found"))>>))
    ELSE IF ~Truthy(fs) \/ Len(fs.items) = 0
    THEN Json(200, Obj(<<Chars("markdowns"), Chars("message")>>,
                       <<Arr(<<>>), Str(Chars("No files selected"))>>))
    ELSE Respond(ProcessFiles(dir, CastFiles(fs.items), 1, <<>>))

-----------------------------------------------------------------------------
(* The recordings given to convertCastToMarkdown *)

\* First lines of a recording: three headers (one recorded at second 0 of
\* the epoch), and lines that are no header.
HeaderPool ==
    {Chars("{\"version\":2,\"width\":80,\"height\":24}"),
     Chars("{\"version\":2,\"width\":80,\"height\":24,\"timestamp\":0}"),
     Chars("{\"version\":2,\"width\":80,\"height\":24,\"timestamp\":1500,\"title\":\"T\",\"env\":{\"SHELL\":\"zsh\"}}"),
     Chars("not json"),
     Chars("7"),
     Chars("\"hdr\""),
     Chars("[0,\"o\",\"x\"]"),
     Chars("null"),
     Chars("  ")}

\* Later lines of a recording: events, and lines that are no event.
EventPool ==
    {Chars("[0.1,\"o\",\"$ ls\\r\\n\"]"),
     Chars("[0.5,\"o\",\"file.txt\\r\\n\"]"),
     Chars("[2.7,\"i\",\"q\"]"),
     Chars("[3.5,\"o\"]"),
     Chars("{}"),
     Chars("\"1oz\""),
     Chars("null"),
     Chars("oops"),
     <<>>}

\* The most lines a recording has after its first line.
MaxEvents == 3

RECURSIVE LineSeqs(_, _)
LineSeqs(Pool, n) ==
    IF n = 0 THEN {<<>>}
    ELSE LET shorter == LineSeqs(Pool, n - 1)
         IN  shorter \cup {Append(ls, l) : ls \in {x \in shorter : Len(x) = n - 1}, l \in Pool}

\* The recordings: the empty file, and a first line followed by up to
\* MaxEvents lines, joined by line feeds.
Recordings ==
    {<<>>} \cup {Join(<<h>> \o ls, <<"\n">>) : h \in HeaderPool, ls \in LineSeqs(EventPool, MaxEvents)}

FileNames == {Chars("demo.cast")}

ConvertIdle ==
    /\ castContent = <<>>
    /\ fileName = <<>>
    /\ header = Undefined
    /\ events = <<>>
    /\ terminalOutput = <<>>
    /\ cleanOutput = <<>>
    /\ blocks = <<>>
    /\ timeSlots = <<>>
    /\ markdown = <<>>

ParseIdle ==
    /\ output = <<>>
    /\ parsed = <<>>

StripIdle ==
    /\ rawText = <<>>
    /\ strippedText = <<>>

ClassifyIdle ==
    /\ candidateLine = <<>>
    /\ isCommand = FALSE
    /\ extracted = <<>>

PostIdle ==
    /\ loggingDir = FALSE
    /\ logging = <<>>
    /\ files = Undefined
    /\ response = Json(0, Undefined)

InitConvert ==
    /\ pc = "call"
    /\ castContent \in Recordings
    /\ fileName \in FileNames
    /\ header = Undefined
    /\ events = <<>>
    /\ terminalOutput = <<>>
    /\ cleanOutput = <<>>
    /\ blocks = <<>>
    /\ timeSlots = <<>>
    /\ markdown = <<>>
    /\ ParseIdle
    /\ StripIdle
    /\ ClassifyIdle
    /\ PostIdle

\* One call of convertCastToMarkdown(castContent, fileName), to its return.
Convert ==
    /\ pc = "call"
    /\ pc' = "return"
    /\ \E run \in {ConvertRun(castContent, fileName)} :
           /\ header' = run.header
           /\ events' = run.events
           /\ terminalOutput' = run.terminalOutput
           /\ cleanOutput' = run.cleanOutput
           /\ blocks' = run.blocks
           /\ timeSlots' = run.timeSlots
           /\ markdown' = Text(run.markdown)
    /\ UNCHANGED <<castContent, fileName, parseVars, stripVars, classifyVars, postVars>>

NextConvert == Convert

SpecConvert == InitConvert /\ [][NextConvert]_vars

-----------------------------------------------------------------------------
(* The texts given to parseTerminalOutput *)

\* Lines of cleaned terminal text: prompts with commands, bare commands,
\* output lines and the blank line.
LinePool ==
    {Chars("$ ls"),
     Chars("kubectl get pods"),
     Chars("file.txt"),
     Chars("Total 5"),
     Chars("user@host:~$"),
     <<>>}

\* The most lines the text has.
MaxOutputLines == 4

Outputs == {Join(ls, <<"\n">>) : ls \in LineSeqs(LinePool, MaxOutputLines)}

InitParse ==
    /\ pc = "call"
    /\ output \in Outputs
    /\ parsed = <<>>
    /\ ConvertIdle
    /\ StripIdle
    /\ ClassifyIdle
    /\ PostIdle

\* One call of parseTerminalOutput(output), to its return.
Parse ==
    /\ pc = "call"
    /\ pc' = "return"
    /\ parsed' = parseTerminalOutput(output)
    /\ UNCHANGED <<output, convertVars, stripVars, classifyVars, postVars>>

NextParse == Parse

SpecParse == InitParse /\ [][NextParse]_vars

-----------------------------------------------------------------------------
(* The texts given to stripAnsiCodes *)

\* Lines of raw terminal text: a status message redrawn three times, four
\* times, a line of two alternating segments, a redrawn line that ends in a
\* run of spaces, a command, a prompt remnant, the blank line, a line with
\* escape sequences and a carriage return, a prompt with a command; progress
\* lines with and without the completion mark, a short line, prompts with a
\* typed path, a line with a spinner glyph and control characters, and a
\* prompt with a command that is no known command name.
RawLinePool ==
    {Chars("Preparing nodes"),
     Chars("Preparing nodes ") \o <<CHECK>>,
     Chars("Writing config ") \o <<CHECK>>,
     Chars("file.txt"),
     Chars("  kubectl get pods"),
     <<ARROW>> \o Chars("  ~ /usr/bin/tool"),
     <<ARROW>> \o Chars("  ~ /usr/bin/tool --help"),
     <<BRAILLE>> \o Chars(" load\t") \o <<BEL, ESC>> \o Chars("!") \o <<"U+0008">>,
     Chars("%   ") \o <<ARROW>> \o Chars("  ~ deploy.sh now")}
    \cup
    {Chars("Preparing nodes   Preparing nodes   Preparing nodes"),
     Chars("Writing   Writing   Writing   Writing"),
     Chars("a  b  a  b"),
     Chars("ok  ok  ok  "),
     Chars("kubectl get pods"),
     Chars("%"),
     <<>>,
     <<ESC>> \o Chars("[0mdone") \o <<ESC>> \o Chars("[?25h\r"),
     Chars("%   ") \o <<ARROW>> \o Chars("  ~ ls -la")}

\* The most lines the raw text has.
MaxRawLines == 3

\* Lines of a text with runs of blank lines.
SpacingPool == {<<>>, Chars("x")}

\* The most lines a text with runs of blank lines has.
MaxSpacingLines == 5

RawTexts ==
    {Join(ls, <<"\n">>) : ls \in LineSeqs(RawLinePool, MaxRawLines)}
    \cup {Join(ls, <<"\n">>) : ls \in LineSeqs(SpacingPool, MaxSpacingLines)}

InitStrip ==
    /\ pc = "call"
    /\ rawText \in RawTexts
    /\ strippedText = <<>>
    /\ ConvertIdle
    /\ ParseIdle
    /\ ClassifyIdle
    /\ PostIdle

\* One call of stripAnsiCodes(rawText), to its return.
Strip ==
    /\ pc = "call"
    /\ pc' = "return"
    /\ strippedText' = stripAnsiCodes(rawText)
    /\ UNCHANGED <<rawText, convertVars, parseVars, classifyVars, postVars>>

NextStrip == Strip

SpecStrip == InitStrip /\ [][NextStrip]_vars

\* Lines 899-902 of convertCastToMarkdown: the stripped text is handed to
\* parseTerminalOutput.
Segment ==
    /\ pc = "return"
    /\ pc' = "parsed"
    /\ output' = strippedText
    /\ parsed' = parseTerminalOutput(strippedText)
    /\ UNCHANGED <<stripVars, convertVars, classifyVars, postVars>>

NextPipeline == Strip \/ Segment

\* stripAnsiCodes followed by parseTerminalOutput, on the raw texts.
SpecPipeline == InitStrip /\ [][NextPipeline]_vars

-----------------------------------------------------------------------------
(* The lines given to isCommandLine *)

\* How a line starts: prompts, command names, path-like tokens, a dot, and
\* openers of output lines.
LineStarts ==
    {Chars("$ "), Chars("# "), Chars("user@host:~$ "), Chars("Admin@host:~ "),
     Chars("dev@box:~ "),
     <<ARROW>> \o Chars("  dir "), Chars("ls "), Chars("  kubectl "), Chars("Ls "),
     Chars("./"), Chars("/"), Chars("~/"), Chars("."), Chars("Note: "),
     Chars("Cilium image: "), Chars("Total "), Chars("==> "), <<CHECK>> \o Chars(" "),
     <<>>}

\* How a line goes on.
LineRests ==
    {Chars("get pods"), Chars("-la"), Chars("run --rm img:1"), Chars("a: b"),
     Chars("cilium image (default): v1"), Chars("x $HOME"), <<>>}

CandidateLines == {start \o rest : start \in LineStarts, rest \in LineRests}

InitClassify ==
    /\ pc = "call"
    /\ candidateLine \in CandidateLines
    /\ isCommand = FALSE
    /\ extracted = <<>>
    /\ ConvertIdle
    /\ ParseIdle
    /\ StripIdle
    /\ PostIdle

\* One call of isCommandLine(candidateLine), to its return.
Classify ==
    /\ pc = "call"
    /\ pc' = "return"
    /\ isCommand' = isCommandLine(candidateLine)
    /\ UNCHANGED <<candidateLine, extracted, convertVars, parseVars, stripVars, postVars>>

\* Lines 804-810: the call of extractCommand(candidateLine) on a line that
\* isCommandLine classified as a command, to its return.
Extract ==
    /\ pc = "return"
    /\ isCommand
    /\ pc' = "extracted"
    /\ extracted' = extractCommand(candidateLine)
    /\ UNCHANGED <<candidateLine, isCommand, convertVars, parseVars, stripVars, postVars>>

NextClassify == Classify \/ Extract

SpecClassify == InitClassify /\ [][NextClassify]_vars

-----------------------------------------------------------------------------
(* The requests given to POST *)

FilePool == {Chars("a.cast"), Chars("b.cast"), Chars("a.rec")}

\* What a file of the logging directory holds: a recording, and a file whose
\* first line is no header.
ContentPool ==
    {Chars("{\"version\":2,\"width\":80,\"height\":24}\n[0.1,\"o\",\"$ ls\\r\\n\"]\n"),
     Chars("not json\n[0,\"o\",\"x\"]")}

Entry == {NoFile, Unreadable} \cup {File(content) : content \in ContentPool}

\* The most names a request has.
MaxFiles == 2

\* The files field of a request body: absent, or an array of names.
Requests ==
    {Undefined} \cup {Arr([n \in 1..Len(names) |-> Str(names[n])]) :
                         names \in LineSeqs(FilePool, MaxFiles)}

Init ==
    /\ pc = "call"
    /\ loggingDir \in BOOLEAN
    /\ logging \in [FilePool -> Entry]
    /\ loggingDir = FALSE => \A name \in FilePool : logging[name] = NoFile
    /\ files \in Requests
    /\ response = Json(0, Undefined)
    /\ ConvertIdle
    /\ ParseIdle
    /\ StripIdle
    /\ ClassifyIdle

\* One request handled by POST, to its response.
Handle ==
    /\ pc = "call"
    /\ pc' = "return"
    /\ response' = POST(loggingDir, logging, files)
    /\ UNCHANGED <<loggingDir, logging, files, convertVars, parseVars, stripVars,
                   classifyVars>>

Next == Handle

Spec == Init /\ [][Next]_vars

-----------------------------------------------------------------------------
(* Properties of convertCastToMarkdown (under SpecConvert) *)

\* The operation has returned.
Returned == pc = "return"

\* The first line of the recording: the content, white space around it
\* trimmed, up to its first line feed.
FirstLine(content) == SubSeq(Trim(content), 1, RunEndNot(Trim(content), 1, {"\n"}) - 1)

\* The lines of the recording after the first.
LaterLines(content) == Tail(Split(Trim(content), "\n"))

InvalidHeaderBlock ==
    Fence \o Chars("\nInvalid cast file format: Could not parse header\n") \o Fence

EmptyFileBlock == Fence \o Chars("\nEmpty cast file\n") \o Fence

\* The conversion produced a document, not a diagnostic.
Converted == Returned /\ StartsWith(markdown, Chars("# Terminal Recording: "))

\* C1: when the first line of the recording is not parseable as JSON, the
\* returned markdown is exactly the invalid-header diagnostic block, no event
\* is parsed, no block is produced and no section of a document appears.
C1_InvalidHeaderDiagnostic ==
    (Returned /\ ~JSONParse(FirstLine(castContent)).ok) =>
        /\ markdown = InvalidHeaderBlock
        /\ events = <<>>
        /\ blocks = <<>>
        /\ timeSlots = <<>>
        /\ ~Includes(markdown, Chars("## Recording Information"))
        /\ ~Includes(markdown, Chars("## Terminal Session"))
        /\ ~Includes(markdown, Chars("## Timeline"))

\* C1 happens: the recording "not json" followed by two event lines was
\* converted to the diagnostic.
C1_Witness ==
    /\ Returned
    /\ FirstLine(castContent) = Chars("not json")
    /\ Len(LaterLines(castContent)) = 2
    /\ JSONParse(LaterLines(castContent)[1]).ok
    /\ markdown = InvalidHeaderBlock

\* C2: for the empty string and for any content that is empty once trimmed,
\* the returned markdown is the empty-recording diagnostic block.
C2_EmptyRecordingDiagnostic ==
    (Returned /\ Trim(castContent) = <<>>) => markdown = EmptyFileBlock

\* C3: a first line that is valid JSON and no JSON object (a number, a
\* string, an array, null) gives the invalid-header diagnostic block, and no
\* Recording Information section is rendered from it.
C3_NonObjectHeaderRejected ==
    (Returned /\ JSONParse(FirstLine(castContent)).ok
              /\ JSONParse(FirstLine(castContent)).v.t # "obj") =>
        /\ markdown = InvalidHeaderBlock
        /\ ~Includes(markdown, Chars("## Recording Information"))

\* An event line of the format: a JSON array of three elements.
IsEventTriple(line) ==
    /\ JSONParse(line).ok
    /\ JSONParse(line).v.t = "arr"
    /\ Len(JSONParse(line).v.items) = 3

\* The event a line of the format stands for.
EventOfTriple(line) ==
    [time |-> JSONParse(line).v.items[1], type |-> JSONParse(line).v.items[2],
     data |-> JSONParse(line).v.items[3]]

\* The lines after the first that are event lines of the format, in order.
TripleLines(content) == SelectSeq(LaterLines(content), IsEventTriple)

\* C4: in a recording whose header is a JSON object, every later line that
\* is not valid JSON, or is valid JSON and no 3-element array, is skipped:
\* the parsed events are exactly the events of the 3-element array lines, in
\* order, and they alone are counted.
C4_MalformedEventLinesSkipped ==
    (Converted /\ header.t = "obj") =>
        /\ Len(events) = Len(TripleLines(castContent))
        /\ \A k \in 1..Len(events) : events[k] = EventOfTriple(TripleLines(castContent)[k])
        /\ Includes(markdown, Chars("Total events: ")
                              \o NatChars(Len(TripleLines(castContent))) \o Chars("\n"))

\* ls without its element at position p.
RemoveAt(ls, p) == SubSeq(ls, 1, p - 1) \o SubSeq(ls, p + 1, Len(ls))

\* The conversion of the recording without its line at position p gives
\* what the conversion of the recording gave.
SameWithoutLine(ls, p) ==
    /\ ConvertRun(Join(RemoveAt(ls, p), <<"\n">>), fileName).events = events
    /\ ConvertRun(Join(RemoveAt(ls, p), <<"\n">>), fileName).blocks = blocks
    /\ ConvertRun(Join(RemoveAt(ls, p), <<"\n">>), fileName).timeSlots = timeSlots
    /\ convertCastToMarkdown(Join(RemoveAt(ls, p), <<"\n">>), fileName) = markdown

\* C5: for a recording whose first line is a JSON object, a line after the
\* first that is not valid JSON changes nothing: the blocks, the events, the
\* timeline rows and the markdown are those of the recording without it.
C5_InvalidLineChangesNothing ==
    (Returned /\ JSONParse(Split(castContent, "\n")[1]).ok
              /\ JSONParse(Split(castContent, "\n")[1]).v.t = "obj") =>
        \A p \in 2..Len(Split(castContent, "\n")) :
            ~JSONParse(Split(castContent, "\n")[p]).ok =>
                SameWithoutLine(Split(castContent, "\n"), p)

\* C5 happens: a line that is no JSON stands between two events of a
\* converted recording, and both events are counted.
C5_Witness ==
    /\ Converted
    /\ Len(LaterLines(castContent)) = 3
    /\ IsEventTriple(LaterLines(castContent)[1])
    /\ LaterLines(castContent)[2] = Chars("oops")
    /\ IsEventTriple(LaterLines(castContent)[3])
    /\ Includes(markdown, Chars("Total events: 2\n"))

\* The data of the events of type "o", in order.
OutputData == SelectSeq(events, LAMBDA e : e.type = Str(<<"o">>))

\* C7: the text given to the stripper is the concatenation, in recording
\* order, of the data of exactly the events of type "o"; the Terminal Session
\* blocks come from that text alone.
C7_OutputAggregation ==
    Converted =>
        /\ terminalOutput = Join([k \in 1..Len(OutputData) |-> ToStr(OutputData[k].data)], <<>>)
        /\ cleanOutput = stripAnsiCodes(terminalOutput)
        /\ blocks = parseTerminalOutput(cleanOutput)

\* C7 happens: an input event stands between two equal output events, and
\* the text holds the output twice and nothing of the input event.
C7_Witness ==
    /\ Converted
    /\ Len(events) = 3
    /\ events[1].type = Str(<<"o">>)
    /\ events[2].type = Str(<<"i">>)
    /\ events[3] = events[1]
    /\ terminalOutput = Chars("$ ls\r\n$ ls\r\n")

\* The lines ls from the last line that is the heading of the Timeline.
FromTimelineHeading(ls) ==
    SubSeq(ls,
           CHOOSE k \in 1..Len(ls) :
               /\ ls[k] = Chars("## Timeline")
               /\ \A m \in (k + 1)..Len(ls) : ls[m] # Chars("## Timeline"),
           Len(ls))

\* The lines of the Timeline section of the markdown.
TimelineLines == FromTimelineHeading(Split(markdown, "\n"))

\* The number the line "Total events: n" shows.
TotalEventsShown(line) ==
    DigitsToNat(SubSeq(line, Len("Total events: ") + 1, Len(line)), 0)

\* The rows of the timeline table: of the lines tl of the section, those
\* after the two heading lines of the table, up to the blank line that ends it.
RowLines(tl) ==
    SubSeq(tl, 7, (CHOOSE k \in 7..Len(tl) :
                      /\ tl[k] = <<>>
                      /\ \A m \in 7..(k - 1) : tl[m] # <<>>) - 1)

\* The count a row "| t | n |" shows.
RowCount(row) ==
    DigitsToNat(SubSeq(row, RunStart(SubSeq(row, 1, Len(row) - 2), Digits) + 1, Len(row) - 2), 0)

RECURSIVE SumOfCounts(_)
SumOfCounts(rows) ==
    IF rows = <<>> THEN 0 ELSE RowCount(Head(rows)) + SumOfCounts(Tail(rows))

\* The Timeline section with lines tl shows n events in all, and as many in
\* the rows of its table.
ShowsInAll(tl, n) ==
    /\ tl[3] = Chars("Total events: ") \o NatChars(n)
    /\ TotalEventsShown(tl[3]) = n
    /\ SumOfCounts(RowLines(tl)) = n

\* C8: in every converted recording the counts of the rows of the timeline
\* table add up to the number shown as Total events, which is the number of
\* parsed events of all types.
C8_TimelineCompleteness == Converted => ShowsInAll(TimelineLines, Len(events))

\* C8 happens: three events, two of them in second 0 and an input event in
\* second 2, shown as rows (0, 2) and (2, 1) under Total events: 3.
C8_Witness ==
    /\ Converted
    /\ Len(events) = 3
    /\ \E k \in 1..3 : events[k].type = Str(<<"i">>)
    /\ Includes(markdown, Chars("Total events: 3\n\n"))
    /\ Includes(markdown, Chars("|\n| 0.0 | 2 |\n| 2.0 | 1 |\n\n"))

\* C9: in a recording whose header is a JSON object, the timeline has exactly
\* one row per distinct floored event time, each row is an integer second with
\* the number of parsed events whose floored time is that second, rows
\* strictly ascend, and no row has zero events.
C9_TimelineRows ==
    (Converted /\ header.t = "obj") =>
        /\ \A n \in 1..Len(timeSlots) :
              /\ timeSlots[n].time.t = "num"
              /\ timeSlots[n].time.frac = <<>>
              /\ timeSlots[n].count > 0
              /\ timeSlots[n].count =
                    Cardinality({k \in 1..Len(events) :
                                    MathFloor(events[k].time) = timeSlots[n].time})
        /\ \A n \in 1..(Len(timeSlots) - 1) :
              IntOf(timeSlots[n].time) < IntOf(timeSlots[n + 1].time)
        /\ \A k \in 1..Len(events) :
              \E n \in 1..Len(timeSlots) : timeSlots[n].time = MathFloor(events[k].time)

\* The object has the key as an own property.
HasKey(obj, key) == \E n \in 1..Len(obj.keys) : obj.keys[n] = key

\* hdr is a header of the format: integer version, width and height, an
\* integer timestamp if any, and an env of strings if any.
IsValidHeader(hdr) ==
    /\ hdr.t = "obj"
    /\ \A key \in {Chars("version"), Chars("width"), Chars("height")} :
          /\ HasKey(hdr, key)
          /\ GetProp(hdr, key).t = "num"
          /\ GetProp(hdr, key).frac = <<>>
    /\ HasKey(hdr, Chars("timestamp")) =>
          /\ GetProp(hdr, Chars("timestamp")).t = "num"
          /\ GetProp(hdr, Chars("timestamp")).frac = <<>>
    /\ HasKey(hdr, Chars("env")) =>
          /\ GetProp(hdr, Chars("env")).t = "obj"
          /\ \A n \in 1..Len(GetProp(hdr, Chars("env")).vals) :
                GetProp(hdr, Chars("env")).vals[n].t = "str"

\* The Recording Information section of the markdown md: from its heading
\* up to the heading of the Terminal Session.
MetadataSection(md) ==
    SubSeq(md,
           CHOOSE i \in 1..Len(md) :
               /\ MatchAt(md, i, Chars("## Recording Information\n"))
               /\ \A j \in 1..(i - 1) : ~MatchAt(md, j, Chars("## Recording Information\n")),
           (CHOOSE i \in 1..Len(md) :
               /\ MatchAt(md, i, Chars("\n## Terminal Session\n"))
               /\ \A j \in 1..(i - 1) : ~MatchAt(md, j, Chars("\n## Terminal Session\n"))))

\* The section sec shows version, dimensions, recording time and
\* environment of the header hdr.
ShowsHeader(sec, hdr) ==
    /\ Includes(sec, Chars("- **Version**: ")
                      \o NumberToString(GetProp(hdr, Chars("version"))) \o <<"\n">>)
    /\ Includes(sec, Chars("- **Dimensions**: ")
                      \o NumberToString(GetProp(hdr, Chars("width")))
                      \o <<" ", "U+00D7", " ">>
                      \o NumberToString(GetProp(hdr, Chars("height"))) \o <<"\n">>)
    /\ HasKey(hdr, Chars("timestamp")) => Includes(sec, Chars("- **Recorded**: "))
    /\ HasKey(hdr, Chars("env")) =>
          \A n \in 1..Len(GetProp(hdr, Chars("env")).keys) :
              Includes(sec, Chars("  - ") \o GetProp(hdr, Chars("env")).keys[n]
                            \o Chars(": ") \o GetProp(hdr, Chars("env")).vals[n].s
                            \o <<"\n">>)

\* C14: for a header of the format, the Recording Information section shows
\* the exact version, width x height, a Recorded line whenever the header
\* has a timestamp (the timestamp 0 too), and an entry per env pair.
C14_HeaderRoundTrip ==
    (Converted /\ IsValidHeader(header)) => ShowsHeader(MetadataSection(markdown), header)

\* An empty line followed by a white-space-only line.
BlankLines == <<<<>>, <<" ", "\t", "\r">>>>

\* ls with the lines more inserted after its first p lines.
InsertAt(ls, p, more) == SubSeq(ls, 1, p) \o more \o SubSeq(ls, p + 1, Len(ls))

\* The conversion of the recording of lines ls with the lines more inserted
\* after its first p lines gives the markdown the conversion gave.
SameWithLines(ls, p, more) ==
    convertCastToMarkdown(Join(InsertAt(ls, p, more), <<"\n">>), fileName) = markdown

\* C15: an empty line, or an empty and a white-space-only line, inserted
\* anywhere in the recording (before its first line, between two lines,
\* after its last line) leave the markdown as it is.
C15_BlankLineTolerance ==
    Returned =>
        \A p \in 0..Len(Split(castContent, "\n")) :
            /\ SameWithLines(Split(castContent, "\n"), p, <<<<>>>>)
            /\ SameWithLines(Split(castContent, "\n"), p, BlankLines)

\* C15 happens: a recording with a blank line before its header and one
\* between header and event was converted, with its one event.
C15_Witness ==
    /\ Converted
    /\ Len(Split(castContent, "\n")) = 4
    /\ Trim(Split(castContent, "\n")[1]) = <<>>
    /\ Split(castContent, "\n")[2] = Chars("{}")
    /\ Split(castContent, "\n")[3] = <<>>
    /\ IsEventTriple(Split(castContent, "\n")[4])
    /\ header = Obj(<<>>, <<>>)
    /\ Len(events) = 1

-----------------------------------------------------------------------------
(* Properties of stripAnsiCodes (under SpecStrip) *)

\* The segments of a line between its runs of two or more white-space
\* characters.
Segments(l) == SplitBy(SpaceRunRe, l, 1)

\* The line is a redrawn status message: 3 or more segments, of which the
\* distinct non-empty trimmed ones number 1 or 2.
IsRedrawn(l) ==
    /\ Len(Segments(l)) >= 3
    /\ Cardinality({Trim(Segments(l)[k]) : k \in 1..Len(Segments(l))} \ {<<>>}) \in {1, 2}

\* The line with the redraws before the last one taken away (a line whose
\* last segment is empty, that is, one that ends in a run of spaces, is left
\* as it is).
LastSegment(l) ==
    IF IsRedrawn(l) /\ Trim(Segments(l)[Len(Segments(l))]) # <<>>
    THEN Trim(Segments(l)[Len(Segments(l))]) ELSE l

\* The text with every redrawn line replaced by its last segment.
WithoutRedraws(t) ==
    Join([k \in 1..Len(Split(t, "\n")) |-> LastSegment(Split(t, "\n")[k])], <<"\n">>)

\* C12: a line of 3 or more segments with 1 or 2 distinct non-empty ones is
\* replaced by its last segment alone: the stripped text is that of the text
\* whose redrawn lines are already reduced to their last segment, and the
\* line "Preparing nodes" drawn three times comes out as "Preparing nodes".
C12_RedrawCollapsing ==
    Returned =>
        /\ strippedText = stripAnsiCodes(WithoutRedraws(rawText))
        /\ rawText = Chars("Preparing nodes   Preparing nodes   Preparing nodes")
              => strippedText = Chars("Preparing nodes")

\* C13: stripping the stripped text again gives the stripped text.
C13_IdempotentStripping == Returned => stripAnsiCodes(strippedText) = strippedText

\* The lines of the text being stripped.
RawLines == Split(rawText, "\n")

\* Plain lines: progress lines, a command and the blank line.  No pass before
\* the filter changes them.
ProgressFamily ==
    {Chars("Preparing nodes"), Chars("Preparing nodes ") \o <<CHECK>>,
     Chars("Writing config ") \o <<CHECK>>, Chars("kubectl get pods"), <<>>}

\* Both lines start with the same progress verb.
SameVerb(a, b) ==
    \E verb \in {"Preparing", "Writing", "Starting", "Installing", "Joining"} :
        StartsWith(a, Chars(verb)) /\ StartsWith(b, Chars(verb))

\* Line k is an incomplete progress line and a later line with the same verb
\* and the completion mark comes before any non-blank line that is no
\* progress line.
CompletedLater(ls, k) ==
    /\ ProgressPattern(ls[k]) /\ ~Includes(ls[k], <<CHECK>>)
    /\ \E j \in (k + 1)..Len(ls) :
          /\ SameVerb(ls[k], ls[j]) /\ Includes(ls[j], <<CHECK>>)
          /\ \A m \in (k + 1)..(j - 1) : ls[m] = <<>> \/ ProgressPattern(ls[m])

\* Line k repeats the line before it and is longer than 10 characters.
RepeatsPrevious(ls, k) ==
    k > 1 /\ Trim(ls[k]) = Trim(ls[k - 1]) /\ Len(Trim(ls[k])) > 10

\* The lines of ls, in order, whose index satisfies the test.
RECURSIVE KeptLines(_, _, _)
KeptLines(ls, kept, k) ==
    IF k > Len(ls) THEN <<>>
    ELSE (IF k \in kept THEN <<ls[k]>> ELSE <<>>) \o KeptLines(ls, kept, k + 1)

\* The text of the kept lines, runs of blank lines collapsed as the last
\* pass does.
TextOfKept(ls, kept) ==
    ReplaceAll(NewlineRunRe, <<"\n", "\n">>, Join(KeptLines(ls, kept, 1), <<"\n">>), 1)

\* C22: in a text of progress lines, commands and blank lines, the lines
\* dropped are the repeated ones and the incomplete progress lines that a
\* later completed line with the same verb supersedes; every other line,
\* an incomplete line followed by a completed line of another verb among
\* them, is kept.
C22_ProgressFilter ==
    (Returned /\ \A k \in 1..Len(RawLines) : RawLines[k] \in ProgressFamily) =>
        strippedText =
            TextOfKept(RawLines,
                       {k \in 1..Len(RawLines) :
                           ~CompletedLater(RawLines, k) /\ ~RepeatsPrevious(RawLines, k)})

\* Plain lines that only the duplicate rule of the filter can drop: a
\* command, the command indented, a short line and the blank line.
DuplicateFamily ==
    {Chars("kubectl get pods"), Chars("  kubectl get pods"), Chars("file.txt"), <<>>}

PathFamily ==
    {<<ARROW>> \o Chars("  ~ /usr/bin/tool"), <<ARROW>> \o Chars("  ~ /usr/bin/tool --help"),
     Chars("kubectl get pods"), <<>>}

\* The line is prompt marker, token and an absolute path, and nothing after
\* the path.
IsPathOnly(l) ==
    /\ PromptPathRe(Trim(l))
    /\ \E j \in 1..Len(Trim(l)) :
          /\ Trim(l)[j] = "/" /\ At(Trim(l), j - 1) \in WhiteSpace
          /\ RunEndNot(Trim(l), 1, WhiteSpace) < j
          /\ RunEndNot(Trim(l), RunEnd(Trim(l), RunEndNot(Trim(l), 1, WhiteSpace), WhiteSpace),
                       WhiteSpace) < j
          /\ RunEndNot(Trim(l), j, WhiteSpace) = Len(Trim(l)) + 1

\* C24: in a text of such lines, the lines dropped are the repeated ones and
\* the prompt lines with a path and nothing after it; a prompt line whose
\* path is followed by arguments is kept.
C24_PromptPathFilter ==
    (Returned /\ \A k \in 1..Len(RawLines) : RawLines[k] \in PathFamily) =>
        strippedText =
            TextOfKept(RawLines,
                       {k \in 1..Len(RawLines) :
                           ~IsPathOnly(RawLines[k]) /\ ~RepeatsPrevious(RawLines, k)})

\* Line k lies in a run of 3 or more consecutive blank lines.
InLongBlankRun(ls, k) ==
    \E a \in 1..k : \E b \in k..Len(ls) :
        b - a + 1 >= 3 /\ \A m \in a..b : Trim(ls[m]) = <<>>

\* The lines with every run of 3 or more blank lines reduced to its first
\* line, and every other line left as it is.
LongBlankRunsCollapsed(ls) ==
    KeptLines(ls, {k \in 1..Len(ls) :
                      ~(InLongBlankRun(ls, k) /\ k > 1 /\ Trim(ls[k - 1]) = <<>>)}, 1)

\* The text is made of lines "x" and blank lines, and starts and ends with
\* a line "x".
IsSpacedText(ls) ==
    /\ \A k \in 1..Len(ls) : ls[k] \in SpacingPool
    /\ ls[1] # <<>> /\ ls[Len(ls)] # <<>>

\* C25: in a text of lines "x" with blank lines between them, a run of 3 or
\* more blank lines comes out as one blank line, a run of 1 or 2 blank lines
\* comes out as it is, and no 3 blank lines in a row come out.
C25_BlankRunCollapsing ==
    (Returned /\ IsSpacedText(RawLines)) =>
        /\ strippedText = Join(LongBlankRunsCollapsed(RawLines), <<"\n">>)
        /\ \A k \in 1..Len(Split(strippedText, "\n")) :
              ~InLongBlankRun(Split(strippedText, "\n"), k)

RuleApplies(l) ==
    /\ Len(Segments(l)) > 3
    /\ Cardinality({Trim(Segments(l)[k]) : k \in 1..Len(Segments(l))} \ {<<>>}) \in {1, 2}

\* The last non-empty segment of the line, trimmed.
FinalVisibleSegment(l) ==
    Trim(Segments(l)[CHOOSE k \in 1..Len(Segments(l)) :
                        /\ Trim(Segments(l)[k]) # <<>>
                        /\ \A m \in (k + 1)..Len(Segments(l)) : Trim(Segments(l)[m]) = <<>>])

\* Every line is a short line or a line the rule applies to, and no line
\* equals the line before it.
IsRedrawnText(ls) ==
    /\ \A k \in 1..Len(ls) : ls[k] = Chars("file.txt") \/ RuleApplies(ls[k])
    /\ \A k \in 2..Len(ls) : ls[k] # ls[k - 1]

\* C27: in a text of such lines, every line the repeated-segment rule
\* applies to comes out as one line, its final visible segment, also when
\* the line ends in a run of spaces.
C27_RedrawKeepsLine ==
    (Returned /\ IsRedrawnText(RawLines)) =>
        strippedText =
            Join([k \in 1..Len(RawLines) |->
                     IF RuleApplies(RawLines[k]) THEN FinalVisibleSegment(RawLines[k])
                     ELSE RawLines[k]], <<"\n">>)

\* C29: no line of the stripped text repeats the line before it with a
\* trimmed text longer than 10 characters.
C29_NoAdjacentDuplicates ==
    Returned =>
        \A k \in 1..Len(Split(strippedText, "\n")) :
            ~RepeatsPrevious(Split(strippedText, "\n"), k)

\* C22 with the completed line of any verb counted: what the filter does.
C22_AnyVerb ==
    (Returned /\ \A k \in 1..Len(RawLines) : RawLines[k] \in ProgressFamily) =>
        strippedText =
            TextOfKept(RawLines,
                       {k \in 1..Len(RawLines) :
                           ~ProgressSuperseded(RawLines, k) /\ ~RepeatsPrevious(RawLines, k)})

-----------------------------------------------------------------------------
(* Properties of stripAnsiCodes with parseTerminalOutput (under SpecPipeline) *)

\* C28: for every line of the raw text that is prompt remnant, prompt
\* marker, directory and a command, the command text is a command for
\* isCommandLine and the parsed blocks hold its command block.
C28_PipelineConsistency ==
    pc = "parsed" =>
        \A k \in 1..Len(RawLines) :
            (PromptWithCommand(RawLines[k]).m /\ Trim(PromptWithCommand(RawLines[k]).g) # <<>>) =>
                /\ isCommandLine(Trim(PromptWithCommand(RawLines[k]).g))
                /\ \E n \in 1..Len(parsed) :
                      parsed[n] = CommandBlock(Trim(PromptWithCommand(RawLines[k]).g))

-----------------------------------------------------------------------------
(* Properties of isCommandLine (under SpecClassify) *)

\* The line starts with a capitalised word followed somewhere by a colon,
\* holds neither "$" nor "#", and is not the image-version exception.
IsCapitalColonOutput(t) ==
    /\ At(t, 1) \in UpperCase /\ At(t, 2) \in LowerCase
    /\ \E k \in 3..Len(t) : t[k] = ":"
    /\ ~Includes(t, <<"$">>) /\ ~Includes(t, <<"#">>)
    /\ ~Includes(t, Chars("cilium image"))

\* C18: a line that starts with a capitalised word followed by a colon,
\* without "$" and "#" and not the image-version exception, is no command,
\* whatever later rule it matches.
C18_CapitalColonIsOutput ==
    (Returned /\ IsCapitalColonOutput(Trim(candidateLine))) => isCommand = FALSE

\* The line t matches none of the rules before the command-name rule.
BeforeCommandNameRule(t) ==
    /\ t # <<>>
    /\ ~OutputMarkerRe(t) /\ ~SentenceOpenerRe(t)
    /\ ~StartsWith(t, Chars("==>")) /\ ~StartsWith(t, Chars("---"))
    /\ ~(CapitalColonRe(t) /\ ~Includes(t, <<"$">>) /\ ~Includes(t, <<"#">>))
    /\ ~(At(t, 1) \in {"$", "#"} /\ At(t, 2) \in WhiteSpace)
    /\ ~UserHostRe(t) /\ ~DecoratedPromptRe(t)

\* The first word of t is a command name and t starts with no capital.
StartsWithCommandName(t) ==
    /\ \E name \in {"ls", "kubectl", "docker", "git", "cilium"} :
          /\ StartsWith(t, Chars(name))
          /\ Len(t) = Len(name) \/ At(t, Len(name) + 1) \in WhiteSpace
    /\ At(t, 1) \notin UpperCase

\* C19: a line that matches no earlier rule, whose first word is a command
\* name and which starts with no capital, is a command if it holds no colon
\* or holds "--", and is no command if it holds a colon and no "--".
C19_CommandNameRule ==
    (Returned /\ BeforeCommandNameRule(Trim(candidateLine))
              /\ StartsWithCommandName(Trim(candidateLine))) =>
        isCommand = (~Includes(candidateLine, <<":">>) \/ Includes(candidateLine, Chars("--")))

\* C19 happens: a kubectl line with a colon and "--" was classified a
\* command.
C19_Witness ==
    /\ Returned
    /\ candidateLine = Chars("  kubectl run --rm img:1")
    /\ isCommand = TRUE

\* C20: a line that matches no earlier rule is a command exactly if it
\* starts with "./", "/" or "~"; a line that starts with "." and no "/"
\* after it is no command.
C20_PathRule ==
    (Returned /\ BeforeCommandNameRule(Trim(candidateLine))
              /\ ~CommandNameRule(Trim(candidateLine))) =>
        isCommand = (\/ StartsWith(Trim(candidateLine), Chars("./"))
                     \/ StartsWith(Trim(candidateLine), Chars("/"))
                     \/ StartsWith(Trim(candidateLine), Chars("~")))

\* The shell-prompt rule of isCommandLine matches t.
ShellPromptRe(t) == At(t, 1) \in {"$", "#"} /\ At(t, 2) \in WhiteSpace

\* The command was extracted from a line that is a command by the
\* shell-prompt, the user@host or the decorated-prompt rule, and is no output
\* line by the capitalised-word rule.
ExtractedFromPrompt ==
    /\ pc = "extracted"
    /\ \/ ShellPromptRe(Trim(candidateLine))
       \/ UserHostRe(Trim(candidateLine))
       \/ DecoratedPromptRe(Trim(candidateLine))
    /\ ~IsCapitalColonOutput(Trim(candidateLine))

\* C21: the command extracted from a line that is a command by the
\* shell-prompt, user@host or decorated-prompt rule no longer starts with
\* such a prompt: no marker, no user@host prefix, no "$" or "#" prefix.
C21_PromptPrefixRemoved ==
    ExtractedFromPrompt =>
        /\ At(extracted, 1) \notin {ARROW, RARROW, BALLOTX}
        /\ ~UserHostRe(extracted)
        /\ ~ShellPromptRe(extracted)

-----------------------------------------------------------------------------
(* Properties of POST (under Spec) *)

\* The entry the batch owes a requested name that has content.
EntryOwed(file) ==
    Obj(<<Chars("fileName"), Chars("markdown")>>,
        <<file, Str(convertCastToMarkdown(logging[file.s].content, file.s))>>)

\* The requested names that have content, in request order.
WithContent == SelectSeq(files.items, LAMBDA file : logging[file.s].kind = "file")

\* C6: the result of a batch holds one (identifier, markdown) entry for every
\* requested identifier that has content, in request order; an identifier
\* without content is left out and the batch is not aborted.
C6_BatchIsolation ==
    (Returned /\ loggingDir /\ files.t = "arr" /\ Len(files.items) > 0) =>
        /\ response.status = 200
        /\ GetProp(response.body, Chars("markdowns"))
              = Arr([k \in 1..Len(WithContent) |-> EntryOwed(WithContent[k])])

-----------------------------------------------------------------------------
(* Properties of parseTerminalOutput (under SpecParse) *)

OutputLines == Split(output, "\n")

\* Line k is a command line that opens a command block.
OpensCommandBlock(k) ==
    /\ Trim(OutputLines[k]) # <<>>
    /\ isCommandLine(OutputLines[k])
    /\ extractCommand(OutputLines[k]) # <<>>

\* Line k is a non-blank line that is no command line.
IsOutputLine(k) == Trim(OutputLines[k]) # <<>> /\ ~isCommandLine(OutputLines[k])

\* The position in the returned blocks of the n-th command block.
CommandBlockAt(n) ==
    CHOOSE b \in 1..Len(parsed) :
        /\ parsed[b].type = "command"
        /\ Cardinality({c \in 1..b : parsed[c].type = "command"}) = n

\* The position of the command block that line k opened.
BlockOfLine(k) == CommandBlockAt(Cardinality({m \in 1..k : OpensCommandBlock(m)}))

\* The non-blank lines of the output blocks, in order.
LinesOfOutputBlocks ==
    SelectSeq(Split(Join([b \in 1..Len(SelectSeq(parsed, LAMBDA blk : blk.type = "output")) |->
                             SelectSeq(parsed, LAMBDA blk : blk.type = "output")[b].content],
                         <<>>), "\n"),
              LAMBDA l : Trim(l) # <<>>)

\* C10: each command line that opens a command block has its block, in
\* order; a non-blank non-command line between two such lines is held by an
\* output block that stands between their two blocks; and the output blocks
\* hold every non-blank non-command line, in order.
C10_NoOutputLineDropped ==
    Returned =>
        /\ Cardinality({b \in 1..Len(parsed) : parsed[b].type = "command"})
              = Cardinality({k \in 1..Len(OutputLines) : OpensCommandBlock(k)})
        /\ \A k \in 1..Len(OutputLines) :
              OpensCommandBlock(k) =>
                  parsed[BlockOfLine(k)].content
                      = Chars("$ ") \o extractCommand(OutputLines[k]) \o <<"\n">>
        /\ \A i, j, k \in 1..Len(OutputLines) :
              (i < j /\ j < k /\ OpensCommandBlock(i) /\ IsOutputLine(j) /\ OpensCommandBlock(k)) =>
                  \E b \in (BlockOfLine(i) + 1)..(BlockOfLine(k) - 1) :
                      /\ parsed[b].type = "output"
                      /\ Includes(parsed[b].content, OutputLines[j] \o <<"\n">>)
        /\ LinesOfOutputBlocks
              = SelectSeq(OutputLines, LAMBDA l : Trim(l) # <<>> /\ ~isCommandLine(l))

\* C10 happens: one output line between two commands came out as the output
\* block between their two command blocks.
C10_Witness ==
    /\ Returned
    /\ output = Chars("$ ls\nfile.txt\nkubectl get pods")
    /\ parsed = <<CommandBlock(Chars("ls")),
                  [type |-> "output", content |-> Chars("file.txt\n")],
                  CommandBlock(Chars("kubectl get pods"))>>

\* Line k is blank.
IsBlankLine(k) == Trim(OutputLines[k]) = <<>>

\* Line k is the first line of a block: a command line with a command, or an
\* output line whose nearest non-blank line before it, if any, is a command
\* line.
StartsBlock(k) ==
    \/ OpensCommandBlock(k)
    \/ /\ IsOutputLine(k)
       /\ \A m \in 1..(k - 1) :
              (~IsBlankLine(m) /\ \A n \in (m + 1)..(k - 1) : IsBlankLine(n))
                  => isCommandLine(OutputLines[m])

\* The block content has exactly one line, of the form "$ <command>".
IsOneCommandLine(content) ==
    /\ Len(content) > 3
    /\ SubSeq(content, 1, 2) = Chars("$ ")
    /\ {n \in 1..Len(content) : content[n] = "\n"} = {Len(content)}

\* The blocks bs are the blocks of the lines at positions src, one each and
\* in that order.
BlocksOfLines(bs, src) ==
    /\ Len(bs) = Len(src)
    /\ \A b \in 1..Len(bs) :
          IF OpensCommandBlock(src[b])
          THEN bs[b] = [type |-> "command",
                        content |-> Chars("$ ") \o extractCommand(OutputLines[src[b]])
                                    \o <<"\n">>]
          ELSE /\ bs[b].type = "output"
               /\ StartsWith(bs[b].content, OutputLines[src[b]] \o <<"\n">>)

\* C11: every returned command block holds exactly one line, of the form
\* "$ <command>", and the returned blocks, the block open at the end of the
\* input last, are in the order of the lines that opened them.
C11_BlocksInSourceOrder ==
    Returned =>
        /\ \A b \in 1..Len(parsed) :
              parsed[b].type = "command" => IsOneCommandLine(parsed[b].content)
        /\ BlocksOfLines(parsed, Ascending({k \in 1..Len(OutputLines) : StartsBlock(k)}))

\* C11 happens: an output line, a command, a bare prompt and an output line
\* came out as three blocks in that order, the block open at the end last.
C11_Witness ==
    /\ Returned
    /\ output = Chars("file.txt\n$ ls\nuser@host:~$\nTotal 5")
    /\ parsed = <<[type |-> "output", content |-> Chars("file.txt\n")],
                  [type |-> "command", content |-> Chars("$ ls\n")],
                  [type |-> "output", content |-> Chars("Total 5\n")]>>

\* The emitted blocks and the open block after the first n lines.
StateAfter(n) ==
    ParseLoop([blocks |-> <<>>, currentBlock |-> NoBlock], SubSeq(OutputLines, 1, n), 1)

\* The returned blocks are those emitted after the last line, then the
\* block open there.
ReturnsFinalState(st) ==
    parsed = st.blocks \o (IF st.currentBlock.type \in {"command", "output"}
                           THEN <<st.currentBlock>> ELSE <<>>)

\* From before to after, the command line l closed and emitted the open
\* block, and opened the block of its command, or none if it has none.
CommandStepDone(before, after, l) ==
    /\ after.blocks = before.blocks
                       \o (IF before.currentBlock.type \in {"command", "output"}
                           THEN <<before.currentBlock>> ELSE <<>>)
    /\ IF extractCommand(l) # <<>>
       THEN after.currentBlock
                = [type |-> "command",
                   content |-> Chars("$ ") \o extractCommand(l) \o <<"\n">>]
       ELSE after.currentBlock.type = "null"

\* C16: on a command line the open block, if any, is closed and emitted;
\* then the command block "$ <command>" is open if the extracted command is
\* not empty, and no block is open, and no block holds the line, if it is.
C16_CommandLineStep ==
    Returned =>
        /\ ReturnsFinalState(StateAfter(Len(OutputLines)))
        /\ \A k \in 1..Len(OutputLines) :
              (~IsBlankLine(k) /\ isCommandLine(OutputLines[k])) =>
                  CommandStepDone(StateAfter(k - 1), StateAfter(k), OutputLines[k])

\* C16 happens: a bare prompt between two output lines closed the first
\* output block and opened none; the next line opened a second one.
C16_Witness ==
    /\ Returned
    /\ output = Chars("file.txt\nuser@host:~$\nTotal 5")
    /\ extractCommand(OutputLines[2]) = <<>>
    /\ parsed = <<[type |-> "output", content |-> Chars("file.txt\n")],
                  [type |-> "output", content |-> Chars("Total 5\n")]>>

\* From before to after, a blank line added a newline to the open output
\* block, or changed nothing.
BlankStepDone(before, after) ==
    IF before.currentBlock.type = "output"
    THEN /\ after.blocks = before.blocks
         /\ after.currentBlock
               = [type |-> "output", content |-> before.currentBlock.content \o <<"\n">>]
    ELSE after = before

\* C17: a blank line appends one newline to the open block when that is an
\* output block; when a command block or no block is open, it changes
\* neither the open block nor the emitted blocks.
C17_BlankLineStep ==
    Returned =>
        /\ ReturnsFinalState(StateAfter(Len(OutputLines)))
        /\ \A k \in 1..Len(OutputLines) :
              IsBlankLine(k) => BlankStepDone(StateAfter(k - 1), StateAfter(k))

\* C17 happens: a blank line after a command left the command block as it
\* was, and a blank line after an output line added a newline to its block.
C17_Witness ==
    /\ Returned
    /\ output = Chars("$ ls\n\nfile.txt\n")
    /\ parsed = <<[type |-> "command", content |-> Chars("$ ls\n")],
                  [type |-> "output", content |-> Chars("file.txt\n\n")]>>

\* The lines that opened the returned blocks, in order.
BlockSources == Ascending({k \in 1..Len(OutputLines) : StartsBlock(k)})

\* Lines i to j as an output block holds them: each line, a blank one as the
\* empty line, followed by a newline.
RunOfLines(i, j) ==
    Join([m \in 1..(j - i + 1) |->
             IF IsBlankLine(i + m - 1) THEN <<>> ELSE OutputLines[i + m - 1]], <<"\n">>)
    \o <<"\n">>

\* C30: every returned block holds text; two output blocks stand next to each
\* other only when a command line with an empty command lies between the
\* lines that opened them; and two non-command lines with nothing but blank
\* and non-command lines between them are held, with what lies between
\* them, by one output block.
C30_NoEmptyOrSplitBlocks ==
    Returned =>
        /\ \A b \in 1..Len(parsed) : Trim(parsed[b].content) # <<>>
        /\ Len(parsed) = Len(BlockSources)
        /\ \A b \in 1..(Len(parsed) - 1) :
              (parsed[b].type = "output" /\ parsed[b + 1].type = "output") =>
                  \E k \in (BlockSources[b] + 1)..(BlockSources[b + 1] - 1) :
                      /\ ~IsBlankLine(k) /\ isCommandLine(OutputLines[k])
                      /\ extractCommand(OutputLines[k]) = <<>>
        /\ \A i, j \in 1..Len(OutputLines) :
              (/\ i <= j /\ IsOutputLine(i) /\ IsOutputLine(j)
               /\ \A m \in i..j : IsBlankLine(m) \/ IsOutputLine(m)) =>
                  \E b \in 1..Len(parsed) :
                      /\ parsed[b].type = "output"
                      /\ Includes(parsed[b].content, RunOfLines(i, j))

\* C30 happens: two output lines came out in one block, and the output line
\* after a bare prompt in a block of its own next to it.
C30_Witness ==
    /\ Returned
    /\ output = Chars("file.txt\nTotal 5\nuser@host:~$\nfile.txt")
    /\ parsed = <<[type |-> "output", content |-> Chars("file.txt\nTotal 5\n")],
                  [type |-> "output", content |-> Chars("file.txt\n")]>>

=============================================================================
